---- MODULE Spec2Model ----
(***************************************************************************)
(* Isolation runtime (container and VM backends), session controller,      *)
(* intent routing and deadline progress of the workspace application.      *)
(*                                                                         *)
(* Several specifications share this module; each one leaves the           *)
(* variables of the other components unchanged:                            *)
(*   Spec          lifecycle and guarded operations of one runtime         *)
(*   SpecExec      execute, writeFile and readFile on a running runtime,   *)
(*                 with the timers and the data path in detail             *)
(*   SpecController  the main process's session:start / session:stop       *)
(*   SpecRouting   the orchestrator's choice of a worker for a message     *)
(*   SpecDeadline  completions of a deadline's microtasks                  *)
(*   SpecPlan      a deadline planned by the reporting worker              *)
(*   SpecAgents    the workers' status and the tasks given to them         *)
(*   SpecStore     the memory store's saving and loading                   *)
(*   SpecTurn      one request: the model's reply, its tool calls, cancel  *)
(*   SpecExport    the loops that copy a list of files out                 *)
(*   SpecProfile   updateProfile on a started runtime                      *)
(*   SpecForward   the task the primary worker forwards                    *)
(*   SpecVAD       the voice activity detector over audio chunks           *)
(*   SpecBridge    the helper's output read in chunks                      *)
(*   SpecStream    one executeStream call and the frames of its output     *)
(*   SpecDemux     the engine's output frames read in chunks               *)
(*   SpecMode      deadline mode and the priority of the tasks built       *)
(*   SpecAssess    recordAssessment and the trend of an assessment         *)
(***************************************************************************)
EXTENDS Integers, Sequences, FiniteSets, TLC

VARIABLES
    \* ---- one isolation runtime instance (BaseIsolationManager fields) ----
    backend,          \* "docker" | "vm": which subclass the instance is
    errorListener,    \* whether a caller registered an 'error' observer
    running,          \* BaseIsolationManager.running
    sessionId,        \* BaseIsolationManager.sessionId (0 = null)
    profile,          \* BaseIsolationManager.profile ("null" = null)
    containerId,      \* DockerIsolationManager.containerId (0 = null)
    bridgeProcess,    \* VMIsolationManager.bridgeProcess (0 = null, else helper pid)
    pendingCommands,  \* VMIsolationManager.pendingCommands: request ids, insertion order
    reqTo,            \* request id -> helper pid whose stdin the request was written to
    initialized,      \* helpers whose startBridge closure has initialized = true
    timers,           \* helpers whose 10 s startup timer has not fired yet
    helper,           \* helper pid -> "none" | "spawned" | "ready" | "killed" | "exited"
    engine,           \* containers running in the container engine
    calls,            \* API calls made on the instance, in call order
    events,           \* lifecycle notifications the latest step emitted, in order,
                      \* <<name, sessionId>>
    begun,            \* number of start() calls that passed the already-running guard
    step,             \* what the latest step did, and the state it started from
    \* ---- one operation in flight on a running runtime, and its environment ----
    inflight,         \* the execute / writeFile / readFile call in flight
    envFile,          \* the file at the path the calls use, inside the environment
    lastResult,       \* how the latest call settled (none while one is in flight)
    \* ---- the main process (module-level variables of main/index.ts) ----
    managers,         \* runtime instances constructed: instance -> lifecycle status
    isolationManager, \* the instance the process refers to (0 = null)
    currentSession,   \* the session object (id 0 = null)
    agentOrchestrator,\* the session whose orchestrator is held (0 = null)
    anthropicApiKey,  \* whether the settings store holds the model credential
    requests,         \* session:start / session:stop requests, in arrival order
    \* ---- the orchestrator's routing of the latest message ----
    messageText,      \* the text of the message (empty before the first)
    intent,           \* the intent type analyzeIntent gave it
    targetAgent,      \* the worker routeToAgent chose for it
    \* ---- the shared memory's deadline database ----
    deadline,          \* one deadline: its microtasks, counters and status
    \* ---- the deadline's due date and stored urgency ----
    daysLeft,         \* days from now until the deadline is due
    weeksOut,         \* Deadline.weeksOut as stored
    phase,             \* Deadline.phase as stored
    \* ---- the workers ----
    agentStatus,      \* BaseAgent.status of each worker
    agentTasks,       \* the tasks given to the workers and where each call stands
    pendingDelegations,\* CompanionAgent.pendingDelegations (task ids)
    taskHistory,       \* BaseAgent.taskHistory of each worker (task ids)
    \* ---- the shared memory store ----
    memoryDb,         \* SharedMemory: contacts, deadlines and journal
    isDirty,          \* SharedMemoryManager.isDirty
    autoSaveTimer,    \* whether the auto-save interval is set
    dataDir,          \* the three database files
    freshDb,          \* the databases of a fresh store built on the files
    storeStep,         \* what the last step of the store did
    \* ---- one request of the orchestrator ----
    turn,             \* one sendMessage request: its position, the tool calls and their results
    currentTask,      \* AgentOrchestrator.currentTask: "null" or "controller"
    aborted,          \* whether abort() was called on the request's controller
    conversationHistory,\* AgentOrchestrator.conversationHistory (roles)
    toolEffects,      \* what the tool calls did to the runtime and the memory
    runtimeUp,         \* whether the isolation runtime is running
    \* ---- a bulk export of files ----
    bulk,              \* one bulk export: its files and how far the loop is
    \* ---- updateProfile ----
    profileState,      \* one runtime: its kept profile, its environment, the last updateProfile
    \* ---- a delegated task ----
    receivedTask,     \* the task given to the primary worker
    forwardedTask,     \* the task it gave to the specialist
    \* ---- the voice activity detector ----
    isSpeaking,       \* VAD.isSpeaking
    lastSpeechTime,   \* VAD.lastSpeechTime
    processed,         \* the chunks given to process() since construction or reset, with what each emitted and returned
    \* ---- the helper's standard output ----
    bridge,            \* the helper's output: messages written, characters not yet read, messages handled, lines logged
    \* ---- one executeStream call ----
    xs,                \* one executeStream call: its command's exit code, the messages still to come, what it resolved to
    \* ---- one multiplexed output stream ----
    demux,             \* one exec's output stream: the engine's frames, bytes not yet read, what execute collected
    \* ---- deadline mode ----
    dmode,             \* the primary worker's mode, the orchestrator's flag, the tasks built
    \* ---- the assessment history ----
    assessments,      \* memory.journal.assessments: the assessments recorded
    asNow             \* Date.now() at the next assessment

rtVars == <<backend, errorListener, running, sessionId, profile, containerId,
            bridgeProcess, pendingCommands, reqTo, initialized, timers, helper,
            engine, calls, events, begun, step>>

exVars == <<inflight, envFile, lastResult>>

ctlVars == <<managers, isolationManager, currentSession, agentOrchestrator,
             anthropicApiKey, requests>>

routeVars == <<messageText, intent, targetAgent>>

dlVars == <<deadline>>

planVars == <<daysLeft, weeksOut, phase>>

agVars == <<agentStatus, agentTasks, pendingDelegations, taskHistory>>

stVars == <<memoryDb, isDirty, autoSaveTimer, dataDir, freshDb, storeStep>>

tnVars == <<turn, currentTask, aborted, conversationHistory, toolEffects, runtimeUp>>

bkVars == <<bulk>>

pfVars == <<profileState>>

fwVars == <<receivedTask, forwardedTask>>

vdVars == <<isSpeaking, lastSpeechTime, processed>>

brVars == <<bridge>>

sxVars == <<xs>>

dmVars == <<demux>>

mdVars == <<dmode>>

asVars == <<assessments, asNow>>

vars == <<rtVars, exVars, ctlVars, routeVars, dlVars, planVars, agVars, stVars, tnVars, bkVars, pfVars, fwVars, vdVars, brVars, sxVars, dmVars, mdVars, asVars>>

\* what each component leaves unchanged
NotRt == <<exVars, ctlVars, routeVars, dlVars, planVars, agVars, stVars, tnVars, bkVars, pfVars, fwVars, vdVars, brVars, sxVars, dmVars, mdVars, asVars>>

NotEx == <<rtVars, ctlVars, routeVars, dlVars, planVars, agVars, stVars, tnVars, bkVars, pfVars, fwVars, vdVars, brVars, sxVars, dmVars, mdVars, asVars>>

NotCtl == <<rtVars, exVars, routeVars, dlVars, planVars, agVars, stVars, tnVars, bkVars, pfVars, fwVars, vdVars, brVars, sxVars, dmVars, mdVars, asVars>>

NotRoute == <<rtVars, exVars, ctlVars, dlVars, planVars, agVars, stVars, tnVars, bkVars, pfVars, fwVars, vdVars, brVars, sxVars, dmVars, mdVars, asVars>>

NotDl == <<rtVars, exVars, ctlVars, routeVars, planVars, agVars, stVars, tnVars, bkVars, pfVars, fwVars, vdVars, brVars, sxVars, dmVars, mdVars, asVars>>

\* a planned deadline lives in the deadline database
NotPlan == <<rtVars, exVars, ctlVars, routeVars, agVars, stVars, tnVars, bkVars, pfVars, fwVars, vdVars, brVars, sxVars, dmVars, mdVars, asVars>>

NotAg == <<rtVars, exVars, ctlVars, routeVars, dlVars, planVars, stVars, tnVars, bkVars, pfVars, fwVars, vdVars, brVars, sxVars, dmVars, mdVars, asVars>>

NotSt == <<rtVars, exVars, ctlVars, routeVars, dlVars, planVars, agVars, tnVars, bkVars, pfVars, fwVars, vdVars, brVars, sxVars, dmVars, mdVars, asVars>>

NotTn == <<rtVars, exVars, ctlVars, routeVars, dlVars, planVars, agVars, stVars, bkVars, pfVars, fwVars, vdVars, brVars, sxVars, dmVars, mdVars, asVars>>

NotBk == <<rtVars, exVars, ctlVars, routeVars, dlVars, planVars, agVars, stVars, tnVars, pfVars, fwVars, vdVars, brVars, sxVars, dmVars, mdVars, asVars>>

NotPf == <<rtVars, exVars, ctlVars, routeVars, dlVars, planVars, agVars, stVars, tnVars, bkVars, fwVars, vdVars, brVars, sxVars, dmVars, mdVars, asVars>>

NotFw == <<rtVars, exVars, ctlVars, routeVars, dlVars, planVars, agVars, stVars, tnVars, bkVars, pfVars, vdVars, brVars, sxVars, dmVars, mdVars, asVars>>

NotVd == <<rtVars, exVars, ctlVars, routeVars, dlVars, planVars, agVars, stVars, tnVars, bkVars, pfVars, fwVars, brVars, sxVars, dmVars, mdVars, asVars>>

NotBr == <<rtVars, exVars, ctlVars, routeVars, dlVars, planVars, agVars, stVars, tnVars, bkVars, pfVars, fwVars, vdVars, sxVars, dmVars, mdVars, asVars>>

NotSx == <<rtVars, exVars, ctlVars, routeVars, dlVars, planVars, agVars, stVars, tnVars, bkVars, pfVars, fwVars, vdVars, brVars, dmVars, mdVars, asVars>>

NotDm == <<rtVars, exVars, ctlVars, routeVars, dlVars, planVars, agVars, stVars, tnVars, bkVars, pfVars, fwVars, vdVars, brVars, sxVars, mdVars, asVars>>

NotMd == <<rtVars, exVars, ctlVars, routeVars, dlVars, planVars, agVars, stVars, tnVars, bkVars, pfVars, fwVars, vdVars, brVars, sxVars, dmVars, asVars>>

NotAs == <<rtVars, exVars, ctlVars, routeVars, dlVars, planVars, agVars, stVars, tnVars, bkVars, pfVars, fwVars, vdVars, brVars, sxVars, dmVars, mdVars>>

--------------------------------------------------------------------------
(* Bounds of the model *)

MaxCalls == 3

MaxSessions == 2

--------------------------------------------------------------------------
(* Inputs *)

Backends == {"docker", "vm"}

\* ISOLATION_PROFILES keys; start() is driven with two of the four tiers
ProfileNames == {"balanced", "isolated"}

LifecycleOps == {"start", "stop", "forceStop"}

DataOps == {"execute", "executeStream", "listFiles", "readFile", "writeFile",
            "copyToEnvironment", "copyFromEnvironment", "updateProfile"}

CallIds == 1..MaxCalls

NewCall(op, pc, res, sid, prof, cont) ==
    [op |-> op, pc |-> pc, res |-> res, sid |-> sid, prof |-> prof, cont |-> cont]

--------------------------------------------------------------------------
(* The instance's state as one value, so that a handler and the promise    *)
(* continuations it triggers compose into one step.  mq is the microtask   *)
(* queue of that step (promise settlements whose continuations have not    *)
(* run yet).  The other transient fields describe the step: settled, the   *)
(* API calls it settles; opname, the API operation it entered (if any);    *)
(* sent, the requests it handed to the engine or wrote to a helper;        *)
(* exited, the helper whose 'exit' event it handled (if any); fault,       *)
(* whether the backend failed a request in it; reqs, the helper requests   *)
(* (sendCommand promises) it resolved or rejected.                         *)

Cur ==
    [running |-> running, sessionId |-> sessionId, profile |-> profile,
     containerId |-> containerId, bridgeProcess |-> bridgeProcess,
     pendingCommands |-> pendingCommands, reqTo |-> reqTo,
     initialized |-> initialized, timers |-> timers, helper |-> helper,
     engine |-> engine, calls |-> calls, events |-> <<>>,
     mq |-> <<>>, settled |-> {}, opname |-> "none", sent |-> 0, exited |-> 0,
     fault |-> FALSE, reqs |-> {}]

NoPre == [running |-> FALSE, sessionId |-> 0, profile |-> "null", pending |-> <<>>]

Pre == [running |-> running, sessionId |-> sessionId, profile |-> profile,
        pending |-> pendingCommands]

\* The step's result becomes the next state; the state the step started from
\* is kept beside the calls it settled.
Commit(s) ==
    /\ running' = s.running
    /\ sessionId' = s.sessionId
    /\ profile' = s.profile
    /\ containerId' = s.containerId
    /\ bridgeProcess' = s.bridgeProcess
    /\ pendingCommands' = s.pendingCommands
    /\ reqTo' = s.reqTo
    /\ initialized' = s.initialized
    /\ timers' = s.timers
    /\ helper' = s.helper
    /\ engine' = s.engine
    /\ calls' = s.calls
    /\ events' = s.events
    /\ step' = [settled |-> s.settled, op |-> s.opname, sent |-> s.sent,
                exited |-> s.exited, fault |-> s.fault, reqs |-> s.reqs,
                pre |-> IF s.settled = {} /\ s.opname = "none" /\ s.exited = 0
                        THEN NoPre ELSE Pre]
    /\ UNCHANGED <<backend, errorListener>>
    /\ UNCHANGED NotRt

SeqRemove(q, x) == SelectSeq(q, LAMBDA y : y # x)

InSeq(q, x) == \E i \in 1..Len(q) : q[i] = x

\* BaseIsolationManager.emitLifecycleEvent: the notification carries the
\* session id the instance holds at the moment of emission.
emitLifecycleEvent(s, ev) ==
    [s EXCEPT !.events = Append(@, <<ev, s.sessionId>>)]

\* A settled call keeps no state of its own.
DoneCall == NewCall("done", "done", "none", 0, "null", 0)

\* A call's promise settles with res; the settlement is what the step reports.
Settle(s, c, res) ==
    [s EXCEPT !.calls[c] = DoneCall,
              !.settled = @ \cup {[c |-> c, op |-> s.calls[c].op, res |-> res]}]

\* A new API call enters as the next element of calls.
Enter(s, call) == [s EXCEPT !.calls = Append(@, call)]

\* ChildProcess.kill(): a live helper will exit; its 'exit' event comes later.
Kill(s, pid) ==
    IF pid # 0 /\ s.helper[pid] \in {"spawned", "ready"}
    THEN [s EXCEPT !.helper[pid] = "killed"]
    ELSE s

Item(c, on, kind, err) == [c |-> c, on |-> on, kind |-> kind, err |-> err]

\* the promise of helper request id is resolved or rejected: its continuation
\* is queued as a microtask
SettleRequest(s, id, kind, err) ==
    [s EXCEPT !.mq = Append(@, Item(id, "cmd", kind, err)),
              !.reqs = @ \cup {[id |-> id, kind |-> kind, err |-> err]}]

--------------------------------------------------------------------------
(* VM backend: VMIsolationManager *)

RECURSIVE RejectAll(_, _)
\* the loop of cleanup over pendingCommands, in insertion order
RejectAll(s, ids) ==
    IF ids = <<>> THEN s
    ELSE RejectAll(SettleRequest(s, Head(ids), "reject", "vm_stopped"), Tail(ids))

\* cleanup dropping the pending requests without rejecting them
VMCleanup_DropsPending(s) ==
    LET s1 == [s EXCEPT !.running = FALSE, !.sessionId = 0, !.profile = "null"]
        s2 == [Kill(s1, s1.bridgeProcess) EXCEPT !.bridgeProcess = 0]
    IN  emitLifecycleEvent([s2 EXCEPT !.pendingCommands = <<>>], "stopped")

\* VMIsolationManager.cleanup
VMCleanup(s) ==
    LET s1 == [s EXCEPT !.running = FALSE, !.sessionId = 0, !.profile = "null"]
        s2 == [Kill(s1, s1.bridgeProcess) EXCEPT !.bridgeProcess = 0]
        s3 == [RejectAll(s2, s2.pendingCommands) EXCEPT !.pendingCommands = <<>>]
    IN  emitLifecycleEvent(s3, "stopped")

\* VMIsolationManager.sendCommand, issued by call c
sendCommand(s, c) ==
    IF s.bridgeProcess = 0
    THEN SettleRequest([s EXCEPT !.calls[c].pc = "waitResp"],
                       c, "reject", "bridge_not_running")
    ELSE [s EXCEPT !.calls[c].pc = "waitResp",
                   !.pendingCommands = Append(@, c),
                   !.reqTo[c] = s.bridgeProcess,
                   !.sent = @ + 1]

\* the catch block of VMIsolationManager.start; emit('error') throws when no
\* observer is registered for it, and then the rest of the block is skipped
VMStartCatch(s, c, err) ==
    LET s1 == emitLifecycleEvent(s, "error")
    IN  IF errorListener
        THEN Settle(VMCleanup(s1), c, err)
        ELSE Settle(s1, c, "unhandled_error")

\* the continuation of VMIsolationManager.start after sendCommand('start') resolved
VMStartResolved(s, c) ==
    Settle(emitLifecycleEvent([s EXCEPT !.running = TRUE], "started"), c, "ok")

\* the continuation of an awaiting call when the promise it awaits settles
VMContinue(s, it) ==
    LET c == it.c
        call == s.calls[c]
    IN  IF call.pc = "waitReady" /\ it.on = "bridge"
        THEN IF it.kind = "resolve" THEN sendCommand(s, c)
                                    ELSE VMStartCatch(s, c, it.err)
        ELSE IF call.pc = "waitResp" /\ it.on = "cmd"
        THEN CASE call.op = "start" ->
                    IF it.kind = "resolve" THEN VMStartResolved(s, c)
                                           ELSE VMStartCatch(s, c, it.err)
               [] call.op = "stop" -> Settle(VMCleanup(s), c, "ok")
               [] OTHER ->
                    IF it.kind = "resolve" THEN Settle(s, c, "ok")
                                           ELSE Settle(s, c, it.err)
        ELSE s

RECURSIVE VMRun(_)
\* run the microtask queue to completion
VMRun(s) ==
    IF s.mq = <<>> THEN s
    ELSE VMRun(VMContinue([s EXCEPT !.mq = Tail(@)], Head(s.mq)))

\* start announcing 'starting' and taking the new session id and profile
\* before it tests the running flag
VMStartBegin_GuardLate(s, c, prof) ==
    LET s1 == emitLifecycleEvent(
                  Enter(s, NewCall("start", "waitReady", "pending", c, prof, 0)),
                  "starting")
        s2 == [s1 EXCEPT !.sessionId = c, !.profile = prof]
    IN  IF s.running
        THEN Settle(s2, c, "already_running")
        ELSE [s2 EXCEPT !.bridgeProcess = c, !.helper[c] = "spawned",
                        !.timers = @ \cup {c}]

\* VMIsolationManager.start up to its first await (startBridge spawns the helper
\* and arms the startup timer)
VMStartBegin(s, c, prof) ==
    IF s.running
    THEN Settle(Enter(s, NewCall("start", "done", "none", c, prof, 0)), c, "already_running")
    ELSE LET s1 == emitLifecycleEvent(
                       Enter(s, NewCall("start", "waitReady", "pending", c, prof, 0)),
                       "starting")
         IN  [s1 EXCEPT !.sessionId = c, !.profile = prof,
                        !.bridgeProcess = c, !.helper[c] = "spawned",
                        !.timers = @ \cup {c}]

\* VMIsolationManager.stop up to its first await
VMStopBegin(s, c) ==
    IF ~s.running
    THEN Settle(Enter(s, NewCall("stop", "done", "none", 0, "null", 0)), c, "ok")
    ELSE sendCommand(
             emitLifecycleEvent(
                 Enter(s, NewCall("stop", "waitResp", "pending", 0, "null", 0)),
                 "stopping"),
             c)

\* VMIsolationManager.forceStop
VMForceStop(s, c) ==
    Settle(VMCleanup(Kill(Enter(s, NewCall("forceStop", "done", "none", 0, "null", 0)),
                          s.bridgeProcess)),
           c, "ok")

\* the guard every VM operation starts with
VMGuardFails(s, op) == ~s.running

\* execute, executeStream, listFiles, readFile, writeFile, copyToEnvironment,
\* copyFromEnvironment, updateProfile up to their await of sendCommand
VMOpBegin(s, c, op) ==
    IF VMGuardFails(s, op)
    THEN Settle(Enter(s, NewCall("operate", "done", "none", 0, "null", 0)), c, "not_running")
    ELSE sendCommand(Enter(s, NewCall("operate", "waitResp", "pending", 0, "null", 0)), c)

\* the stdout 'data' handler of startBridge for the helper's {type:"ready"}
VMOnReady(s, pid) ==
    LET s1 == [s EXCEPT !.helper[pid] = "ready"]
    IN  IF pid \in s1.initialized THEN s1
        ELSE [s1 EXCEPT !.initialized = @ \cup {pid},
                        !.timers = @ \ {pid},
                        !.mq = Append(@, Item(pid, "bridge", "resolve", "none"))]

\* handleBridgeMessage settling the request whether or not it is pending
handleBridgeMessage_NoLookup(s, id, ok) ==
    LET s1 == [s EXCEPT !.pendingCommands = SeqRemove(@, id), !.fault = ~ok]
    IN  IF ok THEN SettleRequest(s1, id, "resolve", "none")
              ELSE SettleRequest(s1, id, "reject", "backend_error")

\* handleBridgeMessage for {type:"response", id, result|error}
handleBridgeMessage(s, id, ok) ==
    IF InSeq(s.pendingCommands, id)
    THEN LET s1 == [s EXCEPT !.pendingCommands = SeqRemove(@, id), !.fault = ~ok]
         IN  IF ok THEN SettleRequest(s1, id, "resolve", "none")
                   ELSE SettleRequest(s1, id, "reject", "backend_error")
    ELSE s

\* the 60 s timer of sendCommand
VMCommandTimer(s, id) ==
    IF InSeq(s.pendingCommands, id)
    THEN SettleRequest([s EXCEPT !.pendingCommands = SeqRemove(@, id), !.fault = TRUE],
                       id, "reject", "timeout")
    ELSE s

\* the write callback of sendCommand reporting an error
VMWriteError(s, id) ==
    SettleRequest([s EXCEPT !.pendingCommands = SeqRemove(@, id), !.fault = TRUE],
                  id, "reject", "write_error")

\* the 10 s timer of startBridge, for the start call that spawned helper pid
VMStartupTimer(s, pid) ==
    LET s1 == [s EXCEPT !.timers = @ \ {pid}]
    IN  IF pid \in s1.initialized THEN s1
        ELSE [Kill(s1, s1.bridgeProcess) EXCEPT
                  !.mq = Append(@, Item(pid, "bridge", "reject", "init_timeout"))]

\* the 'exit' handler startBridge registered on helper pid
VMOnExit(s, pid) ==
    LET s1 == [s EXCEPT !.helper[pid] = "exited", !.exited = pid]
        s2 == IF pid \in s1.initialized THEN s1
              ELSE [s1 EXCEPT !.mq = Append(@, Item(pid, "bridge", "reject", "bridge_exited"))]
    IN  VMCleanup(s2)

--------------------------------------------------------------------------
(* Container backend: DockerIsolationManager *)

\* DockerIsolationManager.cleanup
DockerCleanup(s) ==
    emitLifecycleEvent(
        [s EXCEPT !.running = FALSE, !.containerId = 0,
                  !.sessionId = 0, !.profile = "null"],
        "stopped")

\* DockerIsolationManager.start up to its first await
DockerStartBegin(s, c, prof) ==
    IF s.running
    THEN Settle(Enter(s, NewCall("start", "done", "none", c, prof, 0)), c, "already_running")
    ELSE [emitLifecycleEvent(
              Enter(s, NewCall("start", "create", "pending", c, prof, 0)), "starting")
          EXCEPT !.sessionId = c, !.profile = prof, !.sent = @ + 1]

\* DockerIsolationManager.start after ensureImage, createContainer and
\* container.start: all succeeded (ok), or one of them threw
DockerStartEnd(s, c, ok) ==
    IF ok
    THEN Settle(emitLifecycleEvent(
                    [s EXCEPT !.engine = @ \cup {c}, !.containerId = c,
                              !.running = TRUE],
                    "started"),
                c, "ok")
    ELSE Settle(emitLifecycleEvent([s EXCEPT !.fault = TRUE], "error"), c,
                IF errorListener THEN "backend_error" ELSE "unhandled_error")

\* DockerIsolationManager.stop up to its first await
DockerStopBegin(s, c) ==
    IF ~s.running \/ s.containerId = 0
    THEN Settle(Enter(s, NewCall("stop", "done", "none", 0, "null", 0)), c, "ok")
    ELSE [emitLifecycleEvent(
              Enter(s, NewCall("stop", "cstop", "pending", 0, "null", s.containerId)),
              "stopping")
          EXCEPT !.sent = @ + 1]

\* stop running cleanup only after the engine stopped the container
DockerStopEnd_NoFinally(s, c, ok) ==
    IF ok
    THEN Settle(DockerCleanup([s EXCEPT !.engine = @ \ {s.calls[c].cont}]), c, "ok")
    ELSE Settle([s EXCEPT !.fault = TRUE], c, "ok")

\* DockerIsolationManager.stop after container.stop / container.remove:
\* the engine stopped the container (ok) or the request threw; cleanup either way
DockerStopEnd(s, c, ok) ==
    LET s1 == IF ok THEN [s EXCEPT !.engine = @ \ {s.calls[c].cont}]
                    ELSE [s EXCEPT !.fault = TRUE]
    IN  Settle(DockerCleanup(s1), c, "ok")

\* DockerIsolationManager.forceStop up to its first await
DockerForceStopBegin(s, c) ==
    IF s.containerId = 0
    THEN Settle(Enter(s, NewCall("forceStop", "done", "none", 0, "null", 0)), c, "ok")
    ELSE [Enter(s, NewCall("forceStop", "ckill", "pending", 0, "null", s.containerId))
          EXCEPT !.sent = @ + 1]

\* only the operations built on execute are guarded
DockerGuardFails_ExecuteOnly(s, op) ==
    IF op \in {"execute", "executeStream", "listFiles", "writeFile"}
    THEN ~s.running \/ s.containerId = 0
    ELSE FALSE

\* the guard each container operation reaches first: execute and executeStream
\* test running and containerId, listFiles and writeFile call execute, readFile,
\* copyToEnvironment and updateProfile test containerId, copyFromEnvironment
\* calls readFile
DockerGuardFails(s, op) ==
    IF op \in {"execute", "executeStream", "listFiles", "writeFile"}
    THEN ~s.running \/ s.containerId = 0
    ELSE s.containerId = 0

\* a container operation up to its first request to the engine
DockerOpBegin(s, c, op) ==
    IF DockerGuardFails(s, op)
    THEN Settle(Enter(s, NewCall("operate", "done", "none", 0, "null", 0)), c, "not_running")
    ELSE [Enter(s, NewCall("operate", "engine", "pending", 0, "null", s.containerId))
          EXCEPT !.sent = @ + 1]

\* the engine answered a container operation, or the operation's timer fired
DockerOpEnd(s, c, res) == Settle([s EXCEPT !.fault = (res # "ok")], c, res)

--------------------------------------------------------------------------
(* Actions of the runtime specification *)

NextCall == Len(calls) + 1

CanCall == Len(calls) < MaxCalls

\* the state an API call of operation op starts from
Calling(op) == [Cur EXCEPT !.opname = op]

Start ==
    /\ CanCall
    /\ running \/ begun < MaxSessions
    /\ begun' = IF running THEN begun ELSE begun + 1
    /\ \E prof \in ProfileNames :
          Commit(IF backend = "vm"
                 THEN VMRun(VMStartBegin(Calling("start"), NextCall, prof))
                 ELSE DockerStartBegin(Calling("start"), NextCall, prof))

Stop ==
    /\ CanCall
    /\ UNCHANGED begun
    /\ Commit(IF backend = "vm" THEN VMRun(VMStopBegin(Calling("stop"), NextCall))
                                ELSE DockerStopBegin(Calling("stop"), NextCall))

ForceStop ==
    /\ CanCall
    /\ UNCHANGED begun
    /\ Commit(IF backend = "vm" THEN VMRun(VMForceStop(Calling("forceStop"), NextCall))
                                ELSE DockerForceStopBegin(Calling("forceStop"), NextCall))

Operate ==
    /\ CanCall
    /\ UNCHANGED begun
    /\ \E op \in DataOps :
          Commit(IF backend = "vm" THEN VMRun(VMOpBegin(Calling(op), NextCall, op))
                                   ELSE DockerOpBegin(Calling(op), NextCall, op))

HelperReady ==
    /\ UNCHANGED begun
    /\ \E pid \in DOMAIN helper :
        /\ helper[pid] = "spawned"
        /\ Commit(VMRun(VMOnReady(Cur, pid)))

HelperResponse ==
    /\ UNCHANGED begun
    /\ \E id \in DOMAIN calls, ok \in BOOLEAN :
        /\ InSeq(pendingCommands, id)
        /\ helper[reqTo[id]] \in {"spawned", "ready"}
        /\ Commit(VMRun(handleBridgeMessage(Cur, id, ok)))

\* the helper answers a request that is no longer pending: it timed out or
\* was rejected by cleanup or by a write error, or it was answered before
LateResponse ==
    /\ UNCHANGED begun
    /\ \E id \in DOMAIN calls, ok \in BOOLEAN :
        /\ reqTo[id] # 0
        /\ ~InSeq(pendingCommands, id)
        /\ helper[reqTo[id]] \in {"spawned", "ready"}
        /\ Commit(VMRun(handleBridgeMessage(
                            [Cur EXCEPT !.opname = "lateResponse"], id, ok)))

CommandTimeout ==
    /\ UNCHANGED begun
    /\ \E id \in DOMAIN calls :
        /\ InSeq(pendingCommands, id)
        /\ Commit(VMRun(VMCommandTimer(Cur, id)))

WriteError ==
    /\ UNCHANGED begun
    /\ \E id \in DOMAIN calls :
        /\ InSeq(pendingCommands, id)
        /\ helper[reqTo[id]] \in {"killed", "exited"}
        /\ Commit(VMRun(VMWriteError(Cur, id)))

StartupTimeout ==
    /\ UNCHANGED begun
    /\ \E pid \in timers :
        Commit(VMRun(VMStartupTimer(Cur, pid)))

HelperExit ==
    /\ UNCHANGED begun
    /\ \E pid \in DOMAIN helper :
        /\ helper[pid] \in {"spawned", "ready", "killed"}
        /\ Commit(VMRun(VMOnExit(Cur, pid)))

EngineStart ==
    /\ UNCHANGED begun
    /\ \E c \in DOMAIN calls, ok \in BOOLEAN :
        /\ calls[c].pc = "create"
        /\ Commit(DockerStartEnd(Cur, c, ok))

EngineStop ==
    /\ UNCHANGED begun
    /\ \E c \in DOMAIN calls, ok \in BOOLEAN :
        /\ calls[c].pc \in {"cstop", "ckill"}
        /\ Commit(DockerStopEnd(Cur, c, ok))

EngineReply ==
    /\ UNCHANGED begun
    /\ \E c \in DOMAIN calls, res \in {"ok", "backend_error"} :
        /\ calls[c].pc = "engine"
        /\ Commit(DockerOpEnd(Cur, c, res))

--------------------------------------------------------------------------
(* SpecExec: one execute / writeFile / readFile call at a time on a       *)
(* running runtime.  Text is a sequence of character codes, file content  *)
(* a sequence of bytes, a base64 string a sequence of alphabet indices    *)
(* (0..63) and pads.  Time is in milliseconds and advances from one due   *)
(* event to the next.  The engine and the helper are healthy: they answer *)
(* every request and the path is writable.                                *)

\* execute: `options?.timeout ?? 30000`, container backend
DockerDefaultTimeoutMs == 30000

\* execute: `timeout: options?.timeout ?? 30000`, VM backend
VMDefaultTimeoutMs == 30000

\* sendCommand: setTimeout(..., 60000)
CommandTimeoutMs == 60000

\* the pad character '=' of a base64 string
Pad == 64

\* largest content written by writeFile
MaxBytes == 3

\* byte values of file contents: NUL, line feed, 0xFF
ByteValues == {0, 10, 255}

RECURSIVE SeqsUpTo(_, _)
SeqsUpTo(S, n) ==
    IF n = 0 THEN {<<>>}
    ELSE LET shorter == SeqsUpTo(S, n - 1)
         IN  shorter \cup {Append(q, x) : q \in {r \in shorter : Len(r) = n - 1}, x \in S}

Contents == SeqsUpTo(ByteValues, MaxBytes)

Min(a, b) == IF a < b THEN a ELSE b

\* String.prototype.trim: white space and line terminators
WhiteSpace == {9, 10, 11, 12, 13, 32, 160}

RECURSIVE TrimStart(_)
TrimStart(str) ==
    IF str # <<>> /\ Head(str) \in WhiteSpace THEN TrimStart(Tail(str)) ELSE str

RECURSIVE TrimEnd(_)
TrimEnd(str) ==
    IF str # <<>> /\ str[Len(str)] \in WhiteSpace
    THEN TrimEnd(SubSeq(str, 1, Len(str) - 1))
    ELSE str

Trim(str) == TrimEnd(TrimStart(str))

\* Buffer.toString(): UTF-8 decoding; an ASCII byte is its character, a byte
\* that starts no valid sequence becomes U+FFFD
BufferToString(bytes) ==
    [i \in 1..Len(bytes) |-> IF bytes[i] < 128 THEN bytes[i] ELSE 65533]

\* Buffer.toString('base64')
RECURSIVE ToBase64(_)
ToBase64(bytes) ==
    IF Len(bytes) = 0 THEN <<>>
    ELSE IF Len(bytes) = 1 THEN
        LET n == bytes[1] * 65536
        IN  <<n \div 262144, (n \div 4096) % 64, Pad, Pad>>
    ELSE IF Len(bytes) = 2 THEN
        LET n == bytes[1] * 65536 + bytes[2] * 256
        IN  <<n \div 262144, (n \div 4096) % 64, (n \div 64) % 64, Pad>>
    ELSE
        LET n == bytes[1] * 65536 + bytes[2] * 256 + bytes[3]
        IN  <<n \div 262144, (n \div 4096) % 64, (n \div 64) % 64, n % 64>>
                \o ToBase64(SubSeq(bytes, 4, Len(bytes)))

\* Buffer.from(str, 'base64') and `base64 -d`: every complete group of four
\* gives three bytes, less one per pad; an incomplete group gives nothing
RECURSIVE FromBase64(_)
FromBase64(str) ==
    IF Len(str) < 4 THEN <<>>
    ELSE
        LET v(i) == IF str[i] = Pad THEN 0 ELSE str[i]
            n == v(1) * 262144 + v(2) * 4096 + v(3) * 64 + v(4)
            pads == Cardinality({i \in 1..4 : str[i] = Pad})
            three == <<n \div 65536, (n \div 256) % 256, n % 256>>
        IN  SubSeq(three, 1, 3 - pads) \o FromBase64(SubSeq(str, 5, Len(str)))

\* one frame of the engine's multiplexed stream: stream type, three zero
\* bytes, the payload length in four bytes, the payload
Frame(type, payload) ==
    <<type, 0, 0, 0, 0, 0, Len(payload) \div 256, Len(payload) % 256>> \o payload

\* the chunks the stream delivers for a command's output: one frame per
\* chunk, standard output before standard error, nothing for no output
Chunks(cmd) ==
    (IF cmd.out = <<>> THEN <<>> ELSE <<Frame(1, cmd.out)>>)
        \o (IF cmd.err = <<>> THEN <<>> ELSE <<Frame(2, cmd.err)>>)

\* execute, stream.on('data'): the demultiplexing of one chunk
OnData(call, chunk) ==
    IF Len(chunk) > 8
    THEN LET type == chunk[1]
             data == BufferToString(SubSeq(chunk, 9, Len(chunk)))
         IN  IF type = 1 THEN [call EXCEPT !.stdout = @ \o data]
             ELSE IF type = 2 THEN [call EXCEPT !.stderr = @ \o data]
             ELSE call
    ELSE call

\* commands given to execute: what they print, how they exit, how long they run
ShellCommands ==
    {[name |-> "echo hi", out |-> <<104, 105, 10>>, err |-> <<>>, code |-> 0, dur |-> 0],
     [name |-> "printf ' x'; exit 3", out |-> <<32, 120>>, err |-> <<>>, code |-> 3, dur |-> 0],
     [name |-> "ls /nofile", out |-> <<>>, err |-> <<101, 10>>, code |-> 2, dur |-> 0],
     [name |-> "sleep 20; echo hi", out |-> <<104, 105, 10>>, err |-> <<>>, code |-> 0,
      dur |-> 20000],
     [name |-> "sleep 40", out |-> <<>>, err |-> <<>>, code |-> 0, dur |-> 40000],
     [name |-> "sleep 80", out |-> <<>>, err |-> <<>>, code |-> 0, dur |-> 80000]}

\* ExecuteOptions.timeout: absent, 10 s, 70 s
TimeoutOptions ==
    {[given |-> FALSE, ms |-> 0], [given |-> TRUE, ms |-> 10000], [given |-> TRUE, ms |-> 70000]}

NoCmd == [name |-> "", out |-> <<>>, err |-> <<>>, code |-> 0, dur |-> 0]

NoOpt == [given |-> FALSE, ms |-> 0]

NoFile == [exists |-> FALSE, data |-> <<>>]

\* what the call that settled just before a readFile was
NoAfter == [op |-> "none", res |-> "none", content |-> <<>>]

\* no call in flight.  timer: time left on the host's timer (-1: none armed);
\* due: time until the environment finishes the request; ran: the command has
\* exited in the container; request/params: what was handed to the backend
NoCall ==
    [op |-> "none", cmd |-> NoCmd, opt |-> NoOpt, content |-> <<>>, after |-> NoAfter,
     request |-> "none", params |-> [timeout |-> 0, content |-> <<>>, write |-> FALSE],
     timer |-> -1, due |-> -1, elapsed |-> 0, ran |-> FALSE,
     chunks |-> <<>>, stdout |-> <<>>, stderr |-> <<>>]

NoResult ==
    [op |-> "none", res |-> "none", cmd |-> NoCmd, opt |-> NoOpt, content |-> <<>>,
     after |-> NoAfter, stdout |-> <<>>, stderr |-> <<>>, exitCode |-> 0, data |-> <<>>,
     elapsed |-> 0]

\* the promise of the call in flight settles
Result(call, res, stdout, stderr, exitCode, data) ==
    [op |-> call.op, res |-> res, cmd |-> call.cmd, opt |-> call.opt,
     content |-> call.content, after |-> call.after, stdout |-> stdout,
     stderr |-> stderr, exitCode |-> exitCode, data |-> data, elapsed |-> call.elapsed]

ExIdle ==
    /\ inflight = NoCall
    /\ envFile = NoFile
    /\ lastResult = NoResult

\* DockerIsolationManager.execute up to the returned promise: the exec is
\* created and attached, the timer is armed with the caller's timeout or 30 s
DockerExecute(call, cmd, write, b64, opt) ==
    [call EXCEPT !.cmd = cmd, !.opt = opt, !.request = "exec",
                 !.params = [timeout |-> 0, content |-> b64, write |-> write],
                 !.timer = IF opt.given THEN opt.ms ELSE DockerDefaultTimeoutMs,
                 !.due = cmd.dur]

\* writeFile passing content.toString() instead of the base64 text
DockerWriteCommand_Utf8(content) == BufferToString(content)

\* DockerIsolationManager.writeFile: execute(`... echo "${b64}" | base64 -d > file`)
\* with no options
DockerWriteCommand(content) == ToBase64(content)

\* VMIsolationManager.sendCommand: the request is written to the helper and
\* the 60 s timer is armed
ExSendCommand(call, request, params, due) ==
    [call EXCEPT !.request = request, !.params = params,
                 !.timer = CommandTimeoutMs, !.due = due]

\* execute passing options.timeout without the 30 s default
VMExecTimeout_NoDefault(opt) == opt.ms

\* VMIsolationManager.execute: the command and `options?.timeout ?? 30000`
\* go to the helper, which answers when the command ends or its timeout does
VMExecTimeout(opt) == IF opt.given THEN opt.ms ELSE VMDefaultTimeoutMs

VMExecute(call, cmd, opt) ==
    ExSendCommand([call EXCEPT !.cmd = cmd, !.opt = opt], "exec",
                  [timeout |-> VMExecTimeout(opt), content |-> <<>>, write |-> FALSE],
                  Min(cmd.dur, VMExecTimeout(opt)))

\* VMIsolationManager.writeFile: content.toString('base64') goes to the helper
VMWriteFile(call, content) ==
    ExSendCommand(call, "write_file",
                  [timeout |-> 0, content |-> ToBase64(content), write |-> TRUE], 0)

VMReadFile(call) ==
    ExSendCommand(call, "read_file",
                  [timeout |-> 0, content |-> <<>>, write |-> FALSE], 0)

\* DockerIsolationManager.execute, stream.on('end'): the result is the
\* trimmed output and the exit code of the exec's inspection
DockerOnEnd(call) ==
    Result(call, "ok", Trim(call.stdout), Trim(call.stderr), call.cmd.code, <<>>)

\* DockerIsolationManager.readFile: the entries' data of the archive, concatenated
RECURSIVE Extract(_)
Extract(archive) ==
    IF archive = <<>> THEN <<>> ELSE Head(archive).data \o Extract(Tail(archive))

\* the helper's answer to exec: an error when the command outlived the
\* timeout it was given, else the command's output as text and its exit code
HelperExecReply(call) ==
    IF call.cmd.dur > call.params.timeout
    THEN [error |-> TRUE, stdout |-> <<>>, stderr |-> <<>>, exitCode |-> 0]
    ELSE [error |-> FALSE, stdout |-> BufferToString(call.cmd.out),
          stderr |-> BufferToString(call.cmd.err), exitCode |-> call.cmd.code]

\* VMIsolationManager.execute after sendCommand resolved, and
\* handleBridgeMessage's rejection when the response carries an error
VMExecuteResult(call, reply) ==
    IF reply.error
    THEN Result(call, "timeout", <<>>, <<>>, 0, <<>>)
    ELSE Result(call, "ok", reply.stdout, reply.stderr, reply.exitCode, <<>>)

--------------------------------------------------------------------------
--------------------------------------------------------------------------
(* SpecController: the main process's session:start and session:stop      *)
(* handlers.  Each createIsolationManager call constructs a new runtime   *)
(* instance; here an instance is its lifecycle status only.  A handler    *)
(* runs from one await to the next in one step, and several requests may  *)
(* be in progress.  A request's index is also the session id it generates *)
(* and the instance it constructs.                                        *)

\* session:start and session:stop requests made
MaxRequests == 3

RequestIds == 1..MaxRequests

NoSession == [id |-> 0, status |-> "null"]

CtlIdle ==
    /\ managers = [m \in RequestIds |-> "none"]
    /\ isolationManager = 0
    /\ currentSession = NoSession
    /\ agentOrchestrator = 0
    /\ anthropicApiKey = FALSE
    /\ requests = <<>>


--------------------------------------------------------------------------
--------------------------------------------------------------------------
(* SpecRouting: AgentOrchestrator.sendMessage up to the choice of the     *)
(* worker.  A text is a sequence of words (maximal runs of word           *)
(* characters), each with the separator that precedes it; a keyword       *)
(* between \b anchors matches whole words only.                           *)

\* longest text, in words
MaxWords == 2

Words == {"debug", "PubMed", "write", "to", "check", "in", "email", "due",
          "phq", "status", "paper", "hello"}

\* what stands between two words: a space, a hyphen, a comma and a space
Separators == {" ", "-", ", "}

Texts ==
    {t \in SeqsUpTo([w : Words, sep : Separators \cup {""}], MaxWords) :
        \A i \in 1..Len(t) : (t[i].sep = "") <=> (i = 1)}

\* String.prototype.toLowerCase on a word
ToLowerCase(w) == IF w = "PubMed" THEN "pubmed" ELSE w

\* a single-word alternative of a pattern
One(w) == <<[w |-> w, seps |-> {}]>>

\* an alternative of several words and the separators it allows before each
Phrase(ws, seps) == [i \in 1..Len(ws) |-> [w |-> ws[i], seps |-> IF i = 1 THEN {} ELSE seps[i - 1]]]

\* the research pattern tried before the coding pattern
IntentRules_ResearchFirst ==
    <<[type |-> "research", alts |-> {One("pubmed"), One("paper")}],
      [type |-> "code", alts |-> {One("debug"), One("write")}]>>

\* analyzeIntent's patterns, in the order they are tried
IntentRules ==
    <<[type |-> "code",
       alts |-> {One("code"), One("debug"), One("implement"), One("fix"), One("create"),
                 One("write"), One("script"), One("function"), One("class"),
                 One("module")}],
      [type |-> "research",
       alts |-> {One("search"), One("find"), One("research"), One("paper"),
                 One("article"), One("literature"), One("pubmed"), One("review")}],
      [type |-> "email",
       alts |-> {One("email"), Phrase(<<"write", "to">>, <<{" "}>>), One("message"),
                 One("contact"), One("send"), One("draft")}],
      [type |-> "deadline",
       alts |-> {One("deadline"), One("due"), One("submit"), One("delivery"),
                 One("milestone")}],
      [type |-> "journal",
       alts |-> {One("feeling"), One("mood"), One("journal"), One("checkin"),
                 Phrase(<<"check", "in">>, <<{"-", " "}>>),
                 Phrase(<<"how", "am", "i">>, <<{" "}, {" "}>>), One("energy")}],
      [type |-> "questionnaire",
       alts |-> {One("phq"), One("gad"), One("asrs"), One("questionnaire"),
                 One("assessment"), One("screening")}],
      [type |-> "digest",
       alts |-> {One("digest"), One("summary"), One("status"),
                 Phrase(<<"what", "s", "happening">>, <<{"'"}, {" "}>>),
                 Phrase(<<"what", "is", "happening">>, <<{" "}, {" "}>>), One("update")}]>>

\* the alternative occurs in the lower-cased text, starting at word i
AltAt(text, alt, i) ==
    /\ i + Len(alt) - 1 <= Len(text)
    /\ \A k \in 1..Len(alt) :
          /\ ToLowerCase(text[i + k - 1].w) = alt[k].w
          /\ k > 1 => text[i + k - 1].sep \in alt[k].seps

\* contentLower.match(pattern)
Matches(text, rule) == \E alt \in rule.alts, i \in 1..Len(text) : AltAt(text, alt, i)

\* AgentOrchestrator.analyzeIntent: the type of the first pattern that
\* matches, "conversation" when none does
RECURSIVE FirstMatch(_, _)
FirstMatch(text, rules) ==
    IF rules = <<>> THEN "conversation"
    ELSE IF Matches(text, Head(rules)) THEN Head(rules).type
    ELSE FirstMatch(text, Tail(rules))

analyzeIntent(text) == FirstMatch(text, IntentRules)

\* AgentOrchestrator.routeToAgent
routingMap ==
    [code |-> "coder", debug |-> "coder", implement |-> "coder",
     research |-> "researcher", literature_review |-> "researcher",
     summarize |-> "researcher", email |-> "reporter", deadline |-> "reporter",
     digest |-> "reporter", journal |-> "companion", check_in |-> "companion",
     questionnaire |-> "companion", conversation |-> "companion"]

routeToAgent(type) == IF type \in DOMAIN routingMap THEN routingMap[type] ELSE "companion"

RouteIdle ==
    /\ messageText = <<>>
    /\ intent = "none"
    /\ targetAgent = "none"


--------------------------------------------------------------------------
--------------------------------------------------------------------------
(* SpecDeadline: one deadline of the shared memory and the completions of *)
(* its microtasks, made through SharedMemoryManager.completeMicrotask or  *)
(* through the reporter's complete_microtask.  Both work on the same      *)
(* deadline object.                                                       *)

\* most microtasks of the deadline
MaxMicrotasks == 4

\* most completions made through the reporter
MaxCompletions == 5

NoDeadline ==
    [microtasks |-> <<>>, completedMicrotasks |-> 0, progressPercent |-> 0,
     status |-> "none"]

DlIdle == deadline = NoDeadline

\* Math.round of the quotient a / b of two non-negative numbers, b > 0
MathRound(a, b) == (2 * a + b) \div (2 * b)

\* a deadline as addDeadline / createDeadline store it: its microtasks
\* pending, no progress
NewDeadline(n) ==
    [microtasks |-> [i \in 1..n |-> "pending"], completedMicrotasks |-> 0,
     progressPercent |-> 0, status |-> "pending"]

\* SharedMemoryManager.updateDeadlineProgress
updateDeadlineProgress(dl) ==
    LET completed == Cardinality({i \in DOMAIN dl.microtasks : dl.microtasks[i] = "done"})
    IN  [dl EXCEPT !.completedMicrotasks = completed,
                   !.progressPercent = IF Len(dl.microtasks) > 0
                                       THEN MathRound(completed * 100, Len(dl.microtasks))
                                       ELSE 0]

\* SharedMemoryManager.completeMicrotask
MemoryCompleteMicrotask(dl, i) ==
    updateDeadlineProgress([dl EXCEPT !.microtasks[i] = "done"])

\* ReporterAgent.completeMicrotask
ReporterCompleteMicrotask(dl, i) ==
    LET completed == dl.completedMicrotasks + 1
        percent == MathRound(completed * 100, Len(dl.microtasks))
    IN  [dl EXCEPT !.microtasks[i] = "done",
                   !.completedMicrotasks = completed,
                   !.progressPercent = percent,
                   !.status = IF percent = 100 THEN "done"
                              ELSE IF @ = "pending" THEN "in_progress" ELSE @]

--------------------------------------------------------------------------
(* SpecPlan: a deadline the reporting worker creates, the weeks passing   *)
(* until it is due, and completions of its microtasks.  Time is counted   *)
(* in days left until the due date.                                       *)

\* days in a week: the divisor 1000 * 60 * 60 * 24 * 7 ms of calculateWeeksOut
DaysPerWeek == 7

\* most completions made through the reporter on a planned deadline
MaxPlanCompletions == 3

\* days from the creation to the due date
DueInDays == {-3, 0, 3, 7, 10, 14, 17, 21, 42, 63, 70, 74}

\* how many days past the due date the clock goes
MaxDaysPast == 7

PlanIdle ==
    /\ daysLeft = 0
    /\ weeksOut = 0
    /\ phase = "none"

\* Math.ceil of days / DaysPerWeek
CeilWeeks(days) == -((-days) \div DaysPerWeek)

\* ReporterAgent.calculateWeeksOut, and the same expression in
\* SharedMemoryManager.addDeadline / updateDeadlineProgress
calculateWeeksOut(days) == CeilWeeks(days)

\* ReporterAgent.determinePhase
determinePhase_PlanningAfterTen(w) ==
    IF w > 10 THEN "planning"
    ELSE IF w >= 6 THEN "building"
    ELSE IF w >= 3 THEN "accelerating"
    ELSE IF w >= 1 THEN "focusing"
    ELSE "taskforce"

determinePhase(w) ==
    IF w >= 10 THEN "planning"
    ELSE IF w >= 6 THEN "building"
    ELSE IF w >= 3 THEN "accelerating"
    ELSE IF w >= 1 THEN "focusing"
    ELSE "taskforce"

\* SharedMemoryManager.calculatePhase
calculatePhase(w) ==
    IF w >= 10 THEN "planning"
    ELSE IF w >= 6 THEN "building"
    ELSE IF w >= 3 THEN "accelerating"
    ELSE IF w >= 1 THEN "focusing"
    ELSE "taskforce"

Max(a, b) == IF a > b THEN a ELSE b

\* decomposeMicrotasks: the stages with the week each is due in and its tasks
PlanStages(w) ==
    <<[name |-> "Planning", week |-> w,
       tasks |-> <<"Define scope", "Research similar work", "Create outline">>],
      [name |-> "Building", week |-> Max(w - 4, 1),
       tasks |-> <<"Draft main content", "Gather data", "Build structure">>],
      [name |-> "Refining", week |-> Max(w - 2, 1),
       tasks |-> <<"Review draft", "Fill gaps", "Polish">>],
      [name |-> "Finalizing", week |-> 1,
       tasks |-> <<"Final review", "Format check", "Submit">>]>>

\* the microtasks of the stages from the k-th on
RECURSIVE StageTasks(_, _, _)
StageTasks(stages, k, w) ==
    IF k > Len(stages) THEN <<>>
    ELSE LET stage == stages[k]
             own == IF stage.week > 0 /\ stage.week <= w
                    THEN [i \in 1..Len(stage.tasks) |->
                            [title |-> stage.tasks[i], dueWeek |-> stage.week,
                             contributesTo |-> stage.name, status |-> "pending"]]
                    ELSE <<>>
         IN  own \o StageTasks(stages, k + 1, w)

\* ReporterAgent.decomposeMicrotasks with one task per stage
decomposeMicrotasks_OnePerStage(w) ==
    StageTasks([k \in 1..4 |-> [PlanStages(w)[k] EXCEPT !.tasks = <<Head(@)>>]], 1, w)

\* ReporterAgent.decomposeMicrotasks
decomposeMicrotasks(w) == StageTasks(PlanStages(w), 1, w)

\* ReporterAgent.createDeadline: the deadline object pushed to the database
PlannedDeadline(w) ==
    [microtasks |-> [i \in 1..Len(decomposeMicrotasks(w)) |-> decomposeMicrotasks(w)[i].status],
     completedMicrotasks |-> 0, progressPercent |-> 0, status |-> "pending"]

--------------------------------------------------------------------------
(* SpecAgents: the workers' status and the tasks given to them, either by *)
(* the orchestrator's sendMessage or by a call of the primary worker's    *)
(* execute, which delegates.  Every await of the code is a step boundary. *)

\* most tasks given to the workers
MaxTasks == 3

Workers == {"companion", "coder", "researcher", "reporter"}

\* intent types of inbound messages and types of tasks given to execute
TaskTypes == {"code", "research", "deadline", "conversation"}

\* the status each worker's execute sets on entry
BusyStatus(w) ==
    CASE w = "companion" -> "thinking"
      [] w = "coder" -> "executing"
      [] w = "researcher" -> "thinking"
      [] w = "reporter" -> "executing"

\* BaseAgent.setStatus
setStatus(status, w, s) == [status EXCEPT ![w] = s]

\* BaseAgent.isAvailable
isAvailable(status, w) == status[w] = "idle"

\* CompanionAgent.execute: the worker its switch delegates a task type to
DelegateRole(type) ==
    CASE type \in {"code", "debug", "implement", "review_code"} -> "coder"
      [] type \in {"search", "research", "summarize", "literature_review",
                   "fact_check"} -> "researcher"
      [] type \in {"email", "deadline", "report", "digest"} -> "reporter"
      [] OTHER -> "none"

AgIdle ==
    /\ agentStatus = [w \in Workers |-> "idle"]
    /\ agentTasks = <<>>
    /\ pendingDelegations = {}
    /\ taskHistory = [w \in Workers |-> {}]

--------------------------------------------------------------------------
(* SpecStore: the shared memory's contact, deadline and journal databases, *)
(* the dirty flag, the auto-save timer and the three database files.       *)

\* most items in the databases together
MaxItems == 2

\* a Date value, the ISO-8601 string JSON.stringify writes for it, and an
\* absent optional field
DateValue(t) == [kind |-> "date", t |-> t]

IsoString(t) == [kind |-> "string", t |-> t]

Undefined == [kind |-> "undefined", t |-> 0]

\* the instants the dates of the databases take: one given by a caller,
\* one read from the clock
GivenDate == DateValue(1)

NowDate == DateValue(2)

\* how many contacts, deadlines, journal entries and assessments there are
ItemCount(mem) ==
    Len(mem.contacts) + Len(mem.deadlines) + Len(mem.journal.entries)
        + Len(mem.journal.assessments)

\* SharedMemoryManager.initializeMemory: the three databases
initializeMemory ==
    [contacts |-> <<>>, deadlines |-> <<>>,
     journal |-> [entries |-> <<>>, assessments |-> <<>>]]

\* Date.prototype.toJSON as JSON.stringify applies it to a field's value;
\* a string stays a string and an undefined field is left out
toJSON(v) == IF v.kind = "date" THEN IsoString(v.t) ELSE v

\* new Date(x) of a stored field
newDate(v) == IF v.kind = "string" THEN DateValue(v.t) ELSE v

\* x ? new Date(x) : undefined
newDateIfSet(v) == IF v.kind = "undefined" THEN Undefined ELSE newDate(v)

\* JSON.parse(JSON.stringify(database)) for each of the three files
StringifyContacts(cs) ==
    [i \in DOMAIN cs |-> [lastContact |-> toJSON(cs[i].lastContact)]]

StringifyDeadlines(ds) ==
    [i \in DOMAIN ds |->
        [dueDate |-> toJSON(ds[i].dueDate),
         createdAt |-> toJSON(ds[i].createdAt),
         microtasks |-> [k \in DOMAIN ds[i].microtasks |->
             [completedAt |-> toJSON(ds[i].microtasks[k].completedAt)]],
         agentContributions |-> [k \in DOMAIN ds[i].agentContributions |->
             [completedAt |-> toJSON(ds[i].agentContributions[k].completedAt)]]]]

StringifyJournal(j) ==
    [entries |-> [i \in DOMAIN j.entries |->
                     [timestamp |-> toJSON(j.entries[i].timestamp)]],
     assessments |-> [i \in DOMAIN j.assessments |->
                     [date |-> toJSON(j.assessments[i].date)]]]

\* SharedMemoryManager.parseDeadlines
parseDeadlines(ds) ==
    [i \in DOMAIN ds |->
        [dueDate |-> newDate(ds[i].dueDate),
         createdAt |-> newDate(ds[i].createdAt),
         microtasks |-> [k \in DOMAIN ds[i].microtasks |->
             [completedAt |-> newDateIfSet(ds[i].microtasks[k].completedAt)]],
         agentContributions |-> [k \in DOMAIN ds[i].agentContributions |->
             [completedAt |-> newDateIfSet(ds[i].agentContributions[k].completedAt)]]]]

\* SharedMemoryManager.parseJournal
parseJournal(j) ==
    [entries |-> [i \in DOMAIN j.entries |->
                     [timestamp |-> newDate(j.entries[i].timestamp)]],
     assessments |-> [i \in DOMAIN j.assessments |->
                     [date |-> newDate(j.assessments[i].date)]]]

\* a database file that does not exist
Missing == [exists |-> FALSE, data |-> <<>>]

NoFiles == [contacts |-> Missing, deadlines |-> Missing, journal |-> Missing]

\* SharedMemoryManager.saveAll: the three files written from the memory
saveAll(mem) ==
    [contacts |-> [exists |-> TRUE, data |-> StringifyContacts(mem.contacts)],
     deadlines |-> [exists |-> TRUE, data |-> StringifyDeadlines(mem.deadlines)],
     journal |-> [exists |-> TRUE, data |-> StringifyJournal(mem.journal)]]

\* SharedMemoryManager.loadPersistedData on a fresh store: every file that
\* exists replaces the empty database
loadPersistedData(files) ==
    [contacts |-> IF files.contacts.exists THEN files.contacts.data
                  ELSE initializeMemory.contacts,
     deadlines |-> IF files.deadlines.exists THEN parseDeadlines(files.deadlines.data)
                   ELSE initializeMemory.deadlines,
     journal |-> IF files.journal.exists THEN parseJournal(files.journal.data)
                 ELSE initializeMemory.journal]

NoStoreStep == [op |-> "none", wrote |-> 0, wasDirty |-> FALSE, wasDisposed |-> FALSE]

StIdle ==
    /\ memoryDb = initializeMemory
    /\ isDirty = FALSE
    /\ autoSaveTimer = FALSE
    /\ dataDir = NoFiles
    /\ freshDb = initializeMemory
    /\ storeStep = NoStoreStep

--------------------------------------------------------------------------
(* SpecTurn: one sendMessage request of the orchestrator from the wait on *)
(* the language model to the assistant message: the tool calls of the     *)
(* model's response, their effects on the runtime and on the memory       *)
(* store, and cancelCurrentTask.  The worker's part of the request is in  *)
(* SpecAgents.                                                            *)

\* most tool calls in one response of the model
MaxBlocks == 2

\* getTools: the fields each tool's input_schema marks as required (the
\* ones the calls of ToolCalls leave out)
RequiredFields(name) ==
    CASE name = "bash" -> {"command"}
      [] name = "write_file" -> {"path", "content"}
      [] name = "add_contact" -> {"name", "email", "channels",
                                  "conversationStyle", "relationship"}
      [] OTHER -> {}

\* tool_use blocks: a tool name and the required field the input omits
ToolCalls ==
    {[name |-> n, missing |-> m] :
        n \in {"bash", "write_file", "add_contact", "no_such_tool"},
        m \in {"none", "command", "path", "content", "name"}}

ValidCalls == {c \in ToolCalls : c.missing \in RequiredFields(c.name) \cup {"none"}}

\* what executeTool does with a call before any await: "unknown" (default
\* branch), "memory" (the store's accessor is called), "throws" (Buffer.from
\* of an undefined content) or "isolation" (the runtime is called)
ToolRoute(call) ==
    CASE call.name = "bash" -> "isolation"
      [] call.name = "write_file" ->
            IF call.missing = "content" THEN "throws" ELSE "isolation"
      [] call.name = "add_contact" -> "memory"
      [] OTHER -> "unknown"

\* executeTool's result with errors returned as plain output
ToolResult_ErrorsAsOutput(call, outcome) ==
    CASE outcome = "unknown" -> [isError |-> TRUE, content |-> "Unknown tool"]
      [] outcome \in {"not_running", "backend_error", "throws"} ->
            [isError |-> FALSE, content |-> "Tool execution error"]
      [] outcome = "nonzero" -> [isError |-> TRUE, content |-> "output"]
      [] OTHER -> [isError |-> FALSE, content |-> "output"]

\* executeTool's result: the default branch, the catch, and the tools' own
\* returns
ToolResult(call, outcome) ==
    CASE outcome = "unknown" -> [isError |-> TRUE, content |-> "Unknown tool"]
      [] outcome \in {"not_running", "backend_error", "throws"} ->
            [isError |-> TRUE, content |-> "Tool execution error"]
      [] outcome = "nonzero" -> [isError |-> TRUE, content |-> "output"]
      [] OTHER -> [isError |-> FALSE, content |-> "output"]

NoTurn ==
    [pc |-> "idle", blocks |-> <<>>, stop |-> "none", index |-> 0,
     outcomes |-> <<>>, results |-> <<>>, cancelledAt |-> "none"]

TnIdle ==
    /\ turn = NoTurn
    /\ currentTask = "null"
    /\ aborted = FALSE
    /\ conversationHistory = <<>>
    /\ toolEffects = <<>>
    /\ runtimeUp = FALSE

--------------------------------------------------------------------------
(* SpecExport: the three loops that copy a list of files out of the       *)
(* environment: the files:export handler, session:stop with saveFiles,    *)
(* and FileTransferManager.exportFiles.                                   *)

\* most files in one export
MaxFiles == 4

NoExport ==
    [handler |-> "none", files |-> 0, index |-> 0, copied |-> {},
     skipped |-> {}, failed |-> {}, pc |-> "idle"]

BkIdle == bulk = NoExport

--------------------------------------------------------------------------
(* SpecProfile: updateProfile on a started runtime: the profile the       *)
(* instance keeps and the settings the environment really runs with.      *)

\* most updateProfile calls
MaxUpdates == 2

\* the profile fields of the model: network.enabled and resources
NetworkSettings == BOOLEAN

ResourceSettings == {"small", "large"}

NoUpdate ==
    [pc |-> "none", partial |-> {}, network |-> FALSE, resources |-> "small",
     returned |-> "none", emitted |-> "none"]

NoProfileState ==
    [backend |-> "none", profile |-> [network |-> FALSE, resources |-> "small"],
     environment |-> [network |-> FALSE, resources |-> "small"],
     updates |-> 0, call |-> NoUpdate]

PfIdle == profileState = NoProfileState

\* { ...this.profile, ...profile }: the given fields replace the kept ones
MergeProfile(kept, call) ==
    [network |-> IF "network" \in call.partial THEN call.network ELSE kept.network,
     resources |-> IF "resources" \in call.partial THEN call.resources
                   ELSE kept.resources]

--------------------------------------------------------------------------
(* SpecForward: the task the primary worker hands to a specialist when it *)
(* delegates.                                                             *)

AgentRoles ==
    {"companion", "researcher", "coder", "analyst", "reporter", "watcher",
     "guardian"}

\* the task types the primary worker delegates
DelegatedTypes ==
    {"code", "debug", "implement", "review_code", "search", "research",
     "summarize", "literature_review", "fact_check", "email", "deadline",
     "report", "digest"}

Priorities == {"low", "normal", "high", "critical"}

\* AgentTask: delegatedBy is a role, or "absent"
AgentTasks ==
    [type : DelegatedTypes, priority : Priorities,
     delegatedBy : AgentRoles \cup {"absent"}]

NoAgentTask == [type |-> "none", priority |-> "normal", delegatedBy |-> "absent"]

FwIdle ==
    /\ receivedTask = NoAgentTask
    /\ forwardedTask = NoAgentTask

\* delegateToAgent: { ...task, delegatedBy: this.role }
DelegatedTask(task, role) == [task EXCEPT !.delegatedBy = role]

--------------------------------------------------------------------------
(* SpecVAD: the voice activity detector over the chunks it is given.  A   *)
(* chunk's buffer is its 16-bit samples and whether one odd byte follows  *)
(* them.                                                                  *)

\* types.ts: VAD_THRESHOLD = 0.5
VAD_THRESHOLD == [num |-> 1, den |-> 2]

\* types.ts: MAX_SILENCE_MS
MAX_SILENCE_MS == 1500

\* calculateEnergy: the divisor that scales a sample to -1..1
SampleScale == 32768

MaxChunks == 3

\* the sample value whose scaled magnitude is the threshold
ThresholdLevel == (SampleScale * VAD_THRESHOLD.num) \div VAD_THRESHOLD.den

VadBuffers ==
    { [samples |-> <<>>, oddByte |-> FALSE],
      [samples |-> <<0, 0>>, oddByte |-> FALSE],
      [samples |-> <<16384, -16384>>, oddByte |-> FALSE],
      [samples |-> <<16384, 16385>>, oddByte |-> FALSE],
      [samples |-> <<20000, 20000>>, oddByte |-> FALSE],
      [samples |-> <<20000>>, oddByte |-> TRUE] }

VadTimestamps == {0, 1500, 3001}

\* AudioChunk
AudioChunks == [data : VadBuffers, timestamp : VadTimestamps]

RECURSIVE SumSquares(_)
\* calculateEnergy: the loop's sum
SumSquares(samples) ==
    IF samples = <<>> THEN 0
    ELSE Head(samples) * Head(samples) + SumSquares(Tail(samples))

\* `energy > VAD_THRESHOLD` with energy = sqrt(sum / n) / 32768; for an empty
\* buffer the energy is NaN and the comparison is false
ExceedsThreshold(samples) ==
    /\ samples # <<>>
    /\ SumSquares(samples) > Len(samples) * ThresholdLevel * ThresholdLevel

\* process ending speech on the first chunk below the threshold
process_NoSilenceWait(d, chunk) ==
    IF chunk.data.oddByte
    THEN [isSpeaking |-> d.isSpeaking, lastSpeechTime |-> d.lastSpeechTime,
          emitted |-> <<>>, returned |-> "throws"]
    ELSE LET isSpeech == ExceedsThreshold(chunk.data.samples)
             now == chunk.timestamp
             starts == isSpeech /\ ~d.isSpeaking
             speaking1 == d.isSpeaking \/ starts
             last1 == IF isSpeech THEN now ELSE d.lastSpeechTime
             ends == speaking1 /\ ~isSpeech
         IN  [isSpeaking |-> speaking1 /\ ~ends,
              lastSpeechTime |-> last1,
              emitted |-> (IF starts THEN <<"speech-start">> ELSE <<>>)
                          \o (IF ends THEN <<"speech-end">> ELSE <<>>),
              returned |-> IF isSpeech THEN "true" ELSE "false"]

\* VAD.process on detector state d: readInt16LE throws on the odd byte before
\* anything is changed
process(d, chunk) ==
    IF chunk.data.oddByte
    THEN [isSpeaking |-> d.isSpeaking, lastSpeechTime |-> d.lastSpeechTime,
          emitted |-> <<>>, returned |-> "throws"]
    ELSE LET isSpeech == ExceedsThreshold(chunk.data.samples)
             now == chunk.timestamp
             starts == isSpeech /\ ~d.isSpeaking
             speaking1 == d.isSpeaking \/ starts
             last1 == IF isSpeech THEN now ELSE d.lastSpeechTime
             ends == speaking1 /\ ~isSpeech /\ now - last1 > MAX_SILENCE_MS
         IN  [isSpeaking |-> speaking1 /\ ~ends,
              lastSpeechTime |-> last1,
              emitted |-> (IF starts THEN <<"speech-start">> ELSE <<>>)
                          \o (IF ends THEN <<"speech-end">> ELSE <<>>),
              returned |-> IF isSpeech THEN "true" ELSE "false"]

VdIdle ==
    /\ isSpeaking = FALSE
    /\ lastSpeechTime = 0
    /\ processed = <<>>

--------------------------------------------------------------------------
(* SpecBridge: the helper's standard output as the 'data' handler of       *)
(* startBridge reads it.  A character is the message it belongs to and its *)
(* place in the message's JSON text; the newline belongs to no message.    *)

MaxMessages == 4

\* characters in the JSON text of one message
MaxTextLen == 2

NewLine == [m |-> 0, i |-> 0]

\* JSON.stringify(message k)
JsonText(k) == [i \in 1..MaxTextLen |-> [m |-> k, i |-> i]]

RECURSIVE HelperWrites(_)
\* the helper writing messages 1..n, each followed by a newline
HelperWrites(n) ==
    IF n = 0 THEN <<>>
    ELSE HelperWrites(n - 1) \o JsonText(n) \o <<NewLine>>

RECURSIVE SplitLines(_, _)
\* data.toString().split('\n'): cur is the piece being collected
SplitLines(text, cur) ==
    IF text = <<>> THEN <<cur>>
    ELSE IF Head(text) = NewLine THEN <<cur>> \o SplitLines(Tail(text), <<>>)
    ELSE SplitLines(Tail(text), Append(cur, Head(text)))

\* .filter(Boolean): the empty pieces are dropped
NonEmptyLines(data) == SelectSeq(SplitLines(data, <<>>), LAMBDA l : l # <<>>)

\* JSON.parse(line): a message's whole text parses, a part of one throws
JsonParse(line) ==
    IF \E k \in 1..MaxMessages : line = JsonText(k)
    THEN [ok |-> TRUE, message |-> line[1].m]
    ELSE [ok |-> FALSE, message |-> 0]

RECURSIVE OnStdoutData(_, _)
\* the loop of the 'data' handler over the lines of one chunk: a parsed line
\* goes to handleBridgeMessage, any other is logged
OnStdoutData(b, lines) ==
    IF lines = <<>> THEN b
    ELSE LET p == JsonParse(Head(lines))
         IN  OnStdoutData(
                 IF p.ok THEN [b EXCEPT !.handled = Append(@, p.message)]
                         ELSE [b EXCEPT !.logged = Append(@, Head(lines))],
                 Tail(lines))

NoBridge == [written |-> 0, unread |-> <<>>, handled |-> <<>>, logged |-> <<>>]

BrIdle == bridge = NoBridge

--------------------------------------------------------------------------
(* SpecStream: one executeStream call on a running runtime.  On the VM     *)
(* backend the helper writes stream frames (stdout, stderr, exit) and the  *)
(* response of exec_stream in an order of its own, and a 'data' event      *)
(* carries one or more whole messages.                                     *)

MaxExitCode == 2

\* messages one 'data' event may carry
MaxPerData == 2

VMStreamMessages == {"stdout", "stderr", "exit", "response"}

DockerStreamFrames == {"stdout", "stderr"}

NoStream ==
    [backend |-> "none", pc |-> "idle", code |-> 0, exitCode |-> 0,
     listening |-> FALSE, responded |-> FALSE, unsent |-> {}, output |-> <<>>,
     resolved |-> 0]

SxIdle == xs = NoStream

\* handleBridgeMessage for one message of the call's stream, and the
\* listeners executeStream registered: onOutput for stdout and stderr,
\* `exitCode = code` for exit; a response resolves sendCommand's promise
OnStreamMessage(x, msg) ==
    IF msg = "response" THEN [x EXCEPT !.responded = TRUE]
    ELSE IF ~x.listening THEN x
    ELSE IF msg = "exit" THEN [x EXCEPT !.exitCode = x.code]
    ELSE [x EXCEPT !.output = Append(@, msg)]

RECURSIVE OnStreamData(_, _)
\* the loop of the stdout 'data' handler over the messages of one chunk
OnStreamData(x, msgs) ==
    IF msgs = <<>> THEN x
    ELSE OnStreamData(OnStreamMessage(x, Head(msgs)), Tail(msgs))

\* executeStream after its await: `return exitCode`, then finally cleanup()
VMStreamReturn(x) ==
    IF x.responded /\ x.pc = "waiting"
    THEN [x EXCEPT !.pc = "resolved", !.resolved = x.exitCode, !.listening = FALSE]
    ELSE x

\* sequences of 1..MaxPerData different messages out of set
Batches(set) ==
    UNION { { q \in [1..n -> set] : \A i, j \in 1..n : q[i] = q[j] => i = j }
            : n \in 1..MaxPerData }

RECURSIVE SeqRange(_)
SeqRange(q) == IF q = <<>> THEN {} ELSE {Head(q)} \cup SeqRange(Tail(q))

--------------------------------------------------------------------------
(* SpecDemux: the multiplexed output stream of one exec on the container   *)
(* backend, delivered in chunks that need not end where a frame ends.      *)

MaxFrames == 2

\* the frames the engine may write: stream type and payload
EngineFrames ==
    { [type |-> 1, payload |-> <<97>>],
      [type |-> 1, payload |-> <<98, 10>>],
      [type |-> 2, payload |-> <<101>>] }

RECURSIVE FrameBytes(_)
\* the bytes of a sequence of frames on the wire
FrameBytes(frames) ==
    IF frames = <<>> THEN <<>>
    ELSE Frame(Head(frames).type, Head(frames).payload) \o FrameBytes(Tail(frames))

RECURSIVE Payloads(_, _)
\* the payloads of the frames of one stream type, in order
Payloads(frames, type) ==
    IF frames = <<>> THEN <<>>
    ELSE (IF Head(frames).type = type THEN Head(frames).payload ELSE <<>>)
             \o Payloads(Tail(frames), type)

NoDemux == [frames |-> <<>>, unread |-> <<>>, stdout |-> <<>>, stderr |-> <<>>,
            pc |-> "idle", result |-> [stdout |-> <<>>, stderr |-> <<>>]]

DmIdle == demux = NoDemux

--------------------------------------------------------------------------
(* SpecMode: the primary worker's deadline mode and the flag the           *)
(* orchestrator keeps of it.                                               *)

MaxDeadlineIds == 2

MaxBuilt == 3

MaxActivations == 2

NoMode ==
    [mode |-> "normal", isDeadlineMode |-> FALSE, deadlines |-> {},
     built |-> <<>>, active |-> FALSE, attempts |-> 0]

MdIdle == dmode = NoMode

\* the orchestrator's listener of 'deadline-mode': isDeadlineMode = event.active
OnDeadlineMode(m, active) == [m EXCEPT !.isDeadlineMode = active]

\* activateDeadlineMode for a stored deadline: the mode, then the event, then
\* one more event for each registered worker
ActivateFound(m) ==
    LET m1 == OnDeadlineMode([m EXCEPT !.mode = "deadline_taskforce"], TRUE)
    IN  OnDeadlineMode(OnDeadlineMode(OnDeadlineMode(m1, TRUE), TRUE), TRUE)

\* deactivateDeadlineMode leaving the mode without telling its listeners
deactivateDeadlineMode_Silent(m) == [m EXCEPT !.mode = "normal"]

\* CompanionAgent.deactivateDeadlineMode
deactivateDeadlineMode(m) == OnDeadlineMode([m EXCEPT !.mode = "normal"], FALSE)

\* sendMessage: priority: this.isDeadlineMode ? 'critical' : 'normal'
TaskPriority(m) == IF m.isDeadlineMode THEN "critical" ELSE "normal"

--------------------------------------------------------------------------
(* SpecAssess: the assessments of the journal database as recordAssessment *)
(* appends them, each with the trend it computes from the history.        *)

MaxAssessments == 5

\* the ids of the questionnaires an assessment can name
Questionnaires == {"phq9", "gad7"}

\* the total scores an assessment can carry
Scores == {0, 1, 3, 6}

AsIdle == assessments = <<>> /\ asNow = 0

\* Array.prototype.sort with (a, b) => b.date.getTime() - a.date.getTime():
\* latest first, entries of equal date in their order in the array
RECURSIVE SortByDateDesc(_)
SortByDateDesc(as) ==
    IF as = <<>> THEN <<>>
    ELSE LET sorted == SortByDateDesc(SubSeq(as, 1, Len(as) - 1))
             a == as[Len(as)]
             k == Cardinality({i \in DOMAIN sorted : sorted[i].date >= a.date})
         IN  SubSeq(sorted, 1, k) \o <<a>> \o SubSeq(sorted, k + 1, Len(sorted))

\* getAssessmentHistory taking the latest entries of any questionnaire
getAssessmentHistory_NoFilter(as, questionnaireId, limit) ==
    LET sorted == SortByDateDesc(as)
    IN  SubSeq(sorted, 1, IF limit < Len(sorted) THEN limit ELSE Len(sorted))

\* SharedMemoryManager.getAssessmentHistory with a limit
getAssessmentHistory(as, questionnaireId, limit) ==
    LET sorted == SortByDateDesc(
                      SelectSeq(as, LAMBDA a : a.questionnaire = questionnaireId))
    IN  SubSeq(sorted, 1, IF limit < Len(sorted) THEN limit ELSE Len(sorted))

\* previousAssessments.reduce((sum, a) => sum + a.totalScore, 0)
RECURSIVE SumScores(_)
SumScores(as) ==
    IF as = <<>> THEN 0 ELSE as[1].totalScore + SumScores(Tail(as))

\* recordAssessment: the trend of a new total score.  diff = totalScore -
\* sum / length is compared with -2 and 2; multiplied by the length the
\* comparison is one of integers
CalculateTrend(as, questionnaireId, totalScore) ==
    LET previousAssessments == getAssessmentHistory(as, questionnaireId, 3)
        n == Len(previousAssessments)
        sum == SumScores(previousAssessments)
    IN  IF n >= 2
        THEN IF n * totalScore - sum < -2 * n THEN "improving"
             ELSE IF n * totalScore - sum > 2 * n THEN "declining"
             ELSE "stable"
        ELSE "undefined"

\* SharedMemoryManager.recordAssessment: the journal's assessments after it
recordAssessment(as, now, questionnaireId, totalScore) ==
    Append(as, [questionnaire |-> questionnaireId, totalScore |-> totalScore,
                date |-> now,
                trend |-> CalculateTrend(as, questionnaireId, totalScore)])

--------------------------------------------------------------------------
RtFresh ==
    /\ running = FALSE
    /\ sessionId = 0
    /\ profile = "null"
    /\ containerId = 0
    /\ bridgeProcess = 0
    /\ pendingCommands = <<>>
    /\ reqTo = [c \in CallIds |-> 0]
    /\ initialized = {}
    /\ timers = {}
    /\ helper = [c \in CallIds |-> "none"]
    /\ engine = {}
    /\ calls = <<>>
    /\ events = <<>>
    /\ begun = 0
    /\ step = [settled |-> {}, op |-> "none", sent |-> 0, exited |-> 0,
               fault |-> FALSE, reqs |-> {}, pre |-> NoPre]

RtInit ==
    /\ backend \in Backends
    /\ errorListener \in BOOLEAN
    /\ RtFresh

Init == RtInit /\ ExIdle /\ CtlIdle /\ AsIdle /\ MdIdle /\ DmIdle /\ SxIdle /\ BrIdle /\ VdIdle /\ FwIdle /\ PfIdle /\ BkIdle /\ TnIdle /\ StIdle /\ AgIdle /\ PlanIdle /\ RouteIdle /\ DlIdle

Next ==
    \/ Start
    \/ Stop
    \/ ForceStop
    \/ Operate
    \/ HelperReady
    \/ HelperResponse
    \/ LateResponse
    \/ CommandTimeout
    \/ WriteError
    \/ StartupTimeout
    \/ HelperExit
    \/ EngineStart
    \/ EngineStop
    \/ EngineReply

Spec == Init /\ [][Next]_vars

--------------------------------------------------------------------------
(* Claims about the runtime lifecycle *)

Emitted(name) == \E i \in 1..Len(events) : events[i][1] = name

\* C1: on either backend, in the state in which a start() call resolves
\* successfully isRunning() is true, and in the state in which a stop() call
\* resolves isRunning() is false, also when the backend failed the stop request.
C1_RunningAfterStartStop ==
    \A x \in step.settled :
        /\ (x.op = "start" /\ x.res = "ok") => running
        /\ x.op = "stop" => ~running

\* a stop() of a live session resolves although the backend failed its stop request
C1_Witness ==
    /\ step.fault
    /\ step.pre.running
    /\ \E x \in step.settled : x.op = "stop"

\* C3: a start() entered while the runtime is running is rejected in the same
\* step with the already-running error, emits nothing, and leaves the running
\* flag, the session id and the profile as they were.
C3_StartWhileRunningRejected ==
    (step.op = "start" /\ step.pre.running) =>
        /\ [c |-> Len(calls), op |-> "start", res |-> "already_running"] \in step.settled
        /\ events = <<>>
        /\ running = step.pre.running
        /\ sessionId = step.pre.sessionId
        /\ profile = step.pre.profile

\* a start() with another profile is entered while a session is live
C3_Witness ==
    /\ step.op = "start"
    /\ step.pre.running
    /\ \E p \in ProfileNames : p # profile

\* C4: a data operation entered while the runtime is not running is rejected in
\* the same step with the not-running error and hands no request to the engine
\* or the helper.
C4_NotRunningRejected ==
    (step.op \in DataOps /\ ~step.pre.running) =>
        /\ [c |-> Len(calls), op |-> "operate", res |-> "not_running"] \in step.settled
        /\ step.sent = 0

\* readFile is called on the container backend while no session is running,
\* after a start() had been made
C4_Witness ==
    /\ step.op = "readFile"
    /\ backend = "docker"
    /\ ~step.pre.running
    /\ begun > 0

\* C6: the step that handles a helper's exit rejects every request that was
\* outstanding with the error "VM stopped", leaves the pending map empty and
\* the running flag false, and emits stopped.
C6_HelperExitRejectsAll ==
    step.exited # 0 =>
        /\ \A i \in 1..Len(step.pre.pending) :
              [id |-> step.pre.pending[i], kind |-> "reject", err |-> "vm_stopped"]
                  \in step.reqs
        /\ \A r \in step.reqs : r.kind = "reject" /\ r.err = "vm_stopped"
        /\ pendingCommands = <<>>
        /\ ~running
        /\ Emitted("stopped")

\* the helper exits while two requests are outstanding
C6_Witness ==
    /\ step.exited # 0
    /\ Len(step.pre.pending) >= 2
    /\ step.pre.running

--------------------------------------------------------------------------
(* Actions of SpecExec *)

ExKeep == UNCHANGED NotEx

\* a new call starts from nothing in flight; what settled before it is kept
\* only by a readFile
Begin(op, content) ==
    [NoCall EXCEPT !.op = op, !.content = content,
                   !.after = IF op = "readFile"
                             THEN [op |-> lastResult.op, res |-> lastResult.res,
                                   content |-> lastResult.content]
                             ELSE NoAfter]

Settled(result) ==
    /\ lastResult' = result
    /\ inflight' = NoCall

Execute ==
    /\ inflight.op = "none"
    /\ running
    /\ backend = "docker" => containerId # 0
    /\ \E cmd \in ShellCommands, opt \in TimeoutOptions :
          inflight' = IF backend = "vm"
                      THEN VMExecute(Begin("execute", <<>>), cmd, opt)
                      ELSE DockerExecute(Begin("execute", <<>>), cmd, FALSE, <<>>, opt)
    /\ lastResult' = NoResult
    /\ UNCHANGED envFile
    /\ ExKeep

WriteFile ==
    /\ inflight.op = "none"
    /\ running
    /\ backend = "docker" => containerId # 0
    /\ \E content \in Contents :
          inflight' = IF backend = "vm"
                      THEN VMWriteFile(Begin("writeFile", content), content)
                      ELSE DockerExecute(Begin("writeFile", content), NoCmd, TRUE,
                                         DockerWriteCommand(content), NoOpt)
    /\ lastResult' = NoResult
    /\ UNCHANGED envFile
    /\ ExKeep

ReadFile ==
    /\ inflight.op = "none"
    /\ IF backend = "vm" THEN running ELSE containerId # 0
    /\ inflight' = IF backend = "vm"
                   THEN VMReadFile(Begin("readFile", <<>>))
                   ELSE [Begin("readFile", <<>>) EXCEPT !.request = "getArchive", !.due = 0]
    /\ lastResult' = NoResult
    /\ UNCHANGED envFile
    /\ ExKeep

\* time passes until the next timer or answer is due
Advance ==
    /\ inflight.op # "none"
    /\ inflight.timer # 0
    /\ inflight.due > 0
    /\ LET dt == IF inflight.timer > 0 THEN Min(inflight.timer, inflight.due)
                 ELSE inflight.due
       IN  inflight' = [inflight EXCEPT !.timer = IF @ > 0 THEN @ - dt ELSE @,
                                        !.due = @ - dt,
                                        !.elapsed = @ + dt]
    /\ UNCHANGED <<envFile, lastResult>>
    /\ ExKeep

\* execute's timer (container backend) or sendCommand's timer (VM backend)
\* fires: the call is rejected with a timeout error
TimerFires ==
    /\ inflight.op # "none"
    /\ inflight.timer = 0
    /\ Settled(Result(inflight, "timeout", <<>>, <<>>, 0, <<>>))
    /\ UNCHANGED envFile
    /\ ExKeep

\* the command exits in the container: a write has decoded its argument into
\* the file, and the output is on the stream
ProcessExits ==
    /\ backend = "docker"
    /\ inflight.request = "exec"
    /\ inflight.due = 0
    /\ ~inflight.ran
    /\ inflight' = [inflight EXCEPT !.ran = TRUE, !.chunks = Chunks(inflight.cmd)]
    /\ envFile' = IF inflight.params.write
                  THEN [exists |-> TRUE, data |-> FromBase64(inflight.params.content)]
                  ELSE envFile
    /\ UNCHANGED lastResult
    /\ ExKeep

StreamData ==
    /\ backend = "docker"
    /\ inflight.ran
    /\ inflight.chunks # <<>>
    /\ inflight' = OnData([inflight EXCEPT !.chunks = Tail(@)], Head(inflight.chunks))
    /\ UNCHANGED <<envFile, lastResult>>
    /\ ExKeep

StreamEnd ==
    /\ backend = "docker"
    /\ inflight.ran
    /\ inflight.chunks = <<>>
    /\ Settled(DockerOnEnd(inflight))
    /\ UNCHANGED envFile
    /\ ExKeep

\* the engine answers getArchive: an error for a missing path, else an
\* archive with the file as its one entry
ArchiveReply ==
    /\ backend = "docker"
    /\ inflight.request = "getArchive"
    /\ Settled(IF envFile.exists
               THEN Result(inflight, "ok", <<>>, <<>>, 0,
                           Extract(<<[name |-> "file", data |-> envFile.data]>>))
               ELSE Result(inflight, "error", <<>>, <<>>, 0, <<>>))
    /\ UNCHANGED envFile
    /\ ExKeep

\* the helper's response arrives and handleBridgeMessage settles the request
HelperReply ==
    /\ backend = "vm"
    /\ inflight.op # "none"
    /\ inflight.due = 0
    /\ \/ /\ inflight.request = "exec"
          /\ Settled(VMExecuteResult(inflight, HelperExecReply(inflight)))
          /\ UNCHANGED envFile
       \/ /\ inflight.request = "write_file"
          /\ envFile' = [exists |-> TRUE, data |-> FromBase64(inflight.params.content)]
          /\ Settled(Result(inflight, "ok", <<>>, <<>>, 0, <<>>))
       \/ /\ inflight.request = "read_file"
          /\ Settled(IF envFile.exists
                     THEN Result(inflight, "ok", <<>>, <<>>, 0,
                                 FromBase64(ToBase64(envFile.data)))
                     ELSE Result(inflight, "error", <<>>, <<>>, 0, <<>>))
          /\ UNCHANGED envFile
    /\ ExKeep

\* a session is live: the state start() leaves behind on either backend
ExecInit ==
    /\ backend \in Backends
    /\ errorListener = FALSE
    /\ running = TRUE
    /\ sessionId = 1
    /\ profile = "balanced"
    /\ containerId = IF backend = "docker" THEN 1 ELSE 0
    /\ bridgeProcess = IF backend = "vm" THEN 1 ELSE 0
    /\ pendingCommands = <<>>
    /\ reqTo = [c \in CallIds |-> 0]
    /\ initialized = IF backend = "vm" THEN {1} ELSE {}
    /\ timers = {}
    /\ helper = [c \in CallIds |-> IF backend = "vm" /\ c = 1 THEN "ready" ELSE "none"]
    /\ engine = IF backend = "docker" THEN {1} ELSE {}
    /\ calls = <<>>
    /\ events = <<>>
    /\ begun = 1
    /\ step = [settled |-> {}, op |-> "none", sent |-> 0, exited |-> 0,
               fault |-> FALSE, reqs |-> {}, pre |-> NoPre]
    /\ ExIdle
    /\ CtlIdle /\ AsIdle /\ MdIdle /\ DmIdle /\ SxIdle /\ BrIdle /\ VdIdle /\ FwIdle /\ PfIdle /\ BkIdle /\ TnIdle /\ StIdle /\ AgIdle /\ PlanIdle
    /\ RouteIdle
    /\ DlIdle

ExecNext ==
    \/ Execute
    \/ WriteFile
    \/ ReadFile
    \/ Advance
    \/ TimerFires
    \/ ProcessExits
    \/ StreamData
    \/ StreamEnd
    \/ ArchiveReply
    \/ HelperReply

SpecExec == ExecInit /\ [][ExecNext]_vars

--------------------------------------------------------------------------
(* Claims about execute, writeFile and readFile *)

\* the timeout a settled or pending execute call asked for, 30 s when it gave none
AskedTimeout(r) == IF r.opt.given THEN r.opt.ms ELSE 30000

Outlives(r) == r.op = "execute" /\ r.cmd.dur > AskedTimeout(r)

\* C5 as stated: on both backends an execute whose command runs longer than
\* its timeout T (30 s when none is given) fails with a timeout error when T
\* has elapsed.
C5_TimeoutAtT ==
    Outlives(lastResult) =>
        /\ lastResult.res = "timeout"
        /\ lastResult.elapsed = AskedTimeout(lastResult)

\* C5: an execute whose command runs longer than its timeout T (30 s when none
\* is given) fails with a timeout error when T has elapsed on the container
\* backend, and when T or 60 s has elapsed, whichever is first, on the VM
\* backend; until then the call is pending.
C5_TimeoutAtTOrCap ==
    LET at(r) == IF backend = "vm" THEN Min(AskedTimeout(r), 60000) ELSE AskedTimeout(r)
    IN  /\ Outlives(lastResult) =>
              /\ lastResult.res = "timeout"
              /\ lastResult.elapsed = at(lastResult)
        /\ Outlives(inflight) => inflight.elapsed <= at(inflight)

\* an 80 s command run with a 70 s timeout on the VM backend has been rejected
C5_Witness ==
    /\ backend = "vm"
    /\ Outlives(lastResult)
    /\ lastResult.opt.given
    /\ lastResult.opt.ms = 70000
    /\ lastResult.res = "timeout"

C7_WitnessEmpty ==
    /\ backend = "vm"
    /\ lastResult.op = "readFile"
    /\ lastResult.res = "ok"
    /\ lastResult.after.op = "writeFile"
    /\ lastResult.after.content = <<>>

\* C8 as stated: an execute that resolves returns the command's standard
\* output unmodified together with its exit code; "echo hi" gives "hi\n" and 0.
C8_StdoutUnmodified ==
    (lastResult.op = "execute" /\ lastResult.res = "ok") =>
        /\ lastResult.stdout = BufferToString(lastResult.cmd.out)
        /\ lastResult.exitCode = lastResult.cmd.code
        /\ lastResult.cmd.name = "echo hi" =>
              lastResult.stdout = <<104, 105, 10>> /\ lastResult.exitCode = 0

--------------------------------------------------------------------------
\* the module-level variables of the main process as one value
CtlCur ==
    [managers |-> managers, isolationManager |-> isolationManager,
     currentSession |-> currentSession, agentOrchestrator |-> agentOrchestrator,
     requests |-> requests]

CtlCommit(s) ==
    /\ managers' = s.managers
    /\ isolationManager' = s.isolationManager
    /\ currentSession' = s.currentSession
    /\ agentOrchestrator' = s.agentOrchestrator
    /\ requests' = s.requests
    /\ UNCHANGED anthropicApiKey
    /\ UNCHANGED NotCtl

NewRequest(s, kind) ==
    [s EXCEPT !.requests = Append(@, [kind |-> kind, pc |-> "begin", mgr |-> 0])]

At(s, r, pc) == [s EXCEPT !.requests[r].pc = pc]

\* session:start up to `await createIsolationManager(backend)`
StartBegin(s, r) == At(s, r, "create")

\* createIsolationManager resolved with a new instance: it is assigned to
\* isolationManager and its start() is called
StartCreated(s, r) ==
    At([s EXCEPT !.isolationManager = r, !.managers[r] = "starting",
                 !.requests[r].mgr = r], r, "start")

\* start() settled; after a successful start the credential is read, the
\* session object is assigned and the orchestrator is constructed
StartSettled(s, r, ok, key) ==
    IF ~ok THEN At([s EXCEPT !.managers[r] = "stopped"], r, "rejected")
    ELSE IF ~key THEN At([s EXCEPT !.managers[r] = "running"], r, "rejected")
    ELSE At([s EXCEPT !.managers[r] = "running",
                      !.currentSession = [id |-> r, status |-> "running"],
                      !.agentOrchestrator = r], r, "resolved")

\* `await isolationManager.stop()`: the call fails on a null reference
StopCallStop(s, r) ==
    IF s.isolationManager = 0 THEN At(s, r, "rejected")
    ELSE At([s EXCEPT !.requests[r].mgr = s.isolationManager], r, "stop")

\* `if (agentOrchestrator) { await agentOrchestrator.shutdown(); ... }`
StopShutdown(s, r) ==
    IF s.agentOrchestrator # 0 THEN At(s, r, "shutdown") ELSE StopCallStop(s, r)

\* session:stop up to its first await
StopBegin(s, r, save) ==
    IF s.isolationManager = 0 \/ s.currentSession.id = 0 THEN At(s, r, "rejected")
    ELSE LET t == [s EXCEPT !.currentSession.status = "stopping"]
         IN  IF save THEN At(t, r, "copy") ELSE StopShutdown(t, r)

\* the copies of the files to save settled
StopCopied(s, r, ok) == IF ok THEN StopShutdown(s, r) ELSE At(s, r, "rejected")

\* shutdown() resolved
StopShutdownDone(s, r) == StopCallStop([s EXCEPT !.agentOrchestrator = 0], r)

\* stop() resolved: an instance that was running is stopped; the references
\* are cleared, which fails if another request cleared the session first
StopStopped(s, r) ==
    LET m == s.requests[r].mgr
        t == [s EXCEPT !.managers[m] = IF @ = "running" THEN "stopped" ELSE @,
                       !.isolationManager = 0]
    IN  IF t.currentSession.id = 0 THEN At(t, r, "rejected")
        ELSE At([t EXCEPT !.currentSession = NoSession], r, "resolved")

SessionStart ==
    /\ Len(requests) < MaxRequests
    /\ CtlCommit(StartBegin(NewRequest(CtlCur, "session:start"), Len(requests) + 1))

SessionStartCreated ==
    \E r \in DOMAIN requests :
        /\ requests[r].pc = "create"
        /\ CtlCommit(StartCreated(CtlCur, r))

SessionStartSettled ==
    \E r \in DOMAIN requests, ok \in BOOLEAN :
        /\ requests[r].pc = "start"
        /\ CtlCommit(StartSettled(CtlCur, r, ok, anthropicApiKey))

SessionStop ==
    /\ Len(requests) < MaxRequests
    /\ \E save \in BOOLEAN :
          CtlCommit(StopBegin(NewRequest(CtlCur, "session:stop"), Len(requests) + 1, save))

SessionStopCopied ==
    \E r \in DOMAIN requests, ok \in BOOLEAN :
        /\ requests[r].pc = "copy"
        /\ CtlCommit(StopCopied(CtlCur, r, ok))

SessionStopShutdown ==
    \E r \in DOMAIN requests :
        /\ requests[r].pc = "shutdown"
        /\ CtlCommit(StopShutdownDone(CtlCur, r))

SessionStopStopped ==
    \E r \in DOMAIN requests :
        /\ requests[r].pc = "stop"
        /\ CtlCommit(StopStopped(CtlCur, r))

\* settings:set stores or clears the model credential
SettingsSet ==
    /\ \E key \in BOOLEAN :
        /\ key # anthropicApiKey
        /\ anthropicApiKey' = key
    /\ UNCHANGED <<managers, isolationManager, currentSession, agentOrchestrator, requests>>
    /\ UNCHANGED NotCtl

CtlInit ==
    /\ backend = "docker"
    /\ errorListener = FALSE
    /\ RtFresh
    /\ ExIdle
    /\ CtlIdle /\ AsIdle /\ MdIdle /\ DmIdle /\ SxIdle /\ BrIdle /\ VdIdle /\ FwIdle /\ PfIdle /\ BkIdle /\ TnIdle /\ StIdle /\ AgIdle /\ PlanIdle
    /\ RouteIdle
    /\ DlIdle

CtlNext ==
    \/ SessionStart
    \/ SessionStartCreated
    \/ SessionStartSettled
    \/ SessionStop
    \/ SessionStopCopied
    \/ SessionStopShutdown
    \/ SessionStopStopped
    \/ SettingsSet

SpecController == CtlInit /\ [][CtlNext]_vars

--------------------------------------------------------------------------
(* Claims about the session controller *)

RunningManagers == {m \in RequestIds : managers[m] = "running"}

\* C2 as stated: whatever session:start and session:stop requests were made,
\* at most one isolation runtime is running in the process.
C2_AtMostOneRuntime == Cardinality(RunningManagers) <= 1

--------------------------------------------------------------------------
\* sendMessage(content): the intent is analysed and the worker chosen.  The
\* analysis reads nothing but the text, so one message is followed.
SendMessage ==
    /\ targetAgent = "none"
    /\ \E text \in Texts :
        /\ messageText' = text
        /\ intent' = analyzeIntent(text)
        /\ targetAgent' = routeToAgent(analyzeIntent(text))
    /\ UNCHANGED NotRoute

RouteInit ==
    /\ backend = "docker"
    /\ errorListener = FALSE
    /\ RtFresh
    /\ ExIdle
    /\ CtlIdle /\ AsIdle /\ MdIdle /\ DmIdle /\ SxIdle /\ BrIdle /\ VdIdle /\ FwIdle /\ PfIdle /\ BkIdle /\ TnIdle /\ StIdle /\ AgIdle /\ PlanIdle
    /\ RouteIdle
    /\ DlIdle

RouteNext == SendMessage

SpecRouting == RouteInit /\ [][RouteNext]_vars

--------------------------------------------------------------------------
(* Claims about routing *)

HasWord(text, w) == \E i \in 1..Len(text) : ToLowerCase(text[i].w) = w

CodingKeywords == {"code", "debug", "implement", "fix", "create", "write", "script",
                   "function", "class", "module"}

MatchesNoRule(text) == \A r \in 1..Len(IntentRules) : ~Matches(text, IntentRules[r])

\* C9 as stated: a message with the word "debug" goes to the code worker, a
\* message with the word "pubmed" goes to the research worker, and a message
\* that matches no keyword rule goes to the companion worker.
C9_RoutingAsStated ==
    targetAgent # "none" =>
        /\ HasWord(messageText, "debug") => targetAgent = "coder"
        /\ HasWord(messageText, "pubmed") => targetAgent = "researcher"
        /\ MatchesNoRule(messageText) => targetAgent = "companion"

\* C9: a message with the word "debug" goes to the code worker, a message
\* with the word "pubmed" and none of the coding keywords goes to the research
\* worker, and a message that matches no keyword rule goes to the companion
\* worker.
C9_Routing ==
    targetAgent # "none" =>
        /\ HasWord(messageText, "debug") => targetAgent = "coder"
        /\ (HasWord(messageText, "pubmed") /\ \A k \in CodingKeywords : ~HasWord(messageText, k))
              => targetAgent = "researcher"
        /\ MatchesNoRule(messageText) => targetAgent = "companion"

\* "write ... PubMed" was sent and went to the code worker
C9_Witness ==
    /\ HasWord(messageText, "pubmed")
    /\ HasWord(messageText, "write")
    /\ targetAgent = "coder"

--------------------------------------------------------------------------
(* Actions of SpecDeadline *)

CompleteInMemory ==
    /\ \E i \in DOMAIN deadline.microtasks :
          deadline' = MemoryCompleteMicrotask(deadline, i)
    /\ UNCHANGED NotDl

CompleteByReporter ==
    /\ deadline.completedMicrotasks < MaxCompletions
    /\ \E i \in DOMAIN deadline.microtasks :
          deadline' = ReporterCompleteMicrotask(deadline, i)
    /\ UNCHANGED NotDl

DlInit ==
    /\ backend = "docker"
    /\ errorListener = FALSE
    /\ RtFresh
    /\ ExIdle
    /\ CtlIdle /\ AsIdle /\ MdIdle /\ DmIdle /\ SxIdle /\ BrIdle /\ VdIdle /\ FwIdle /\ PfIdle /\ BkIdle /\ TnIdle /\ StIdle /\ AgIdle /\ PlanIdle
    /\ RouteIdle
    /\ deadline \in {NewDeadline(n) : n \in 1..MaxMicrotasks}

DlNext ==
    \/ CompleteInMemory
    \/ CompleteByReporter

SpecDeadline == DlInit /\ [][DlNext]_vars

--------------------------------------------------------------------------
(* Claims about deadline progress *)

AllDone == \A i \in DOMAIN deadline.microtasks : deadline.microtasks[i] = "done"

SomeDone == \E i \in DOMAIN deadline.microtasks : deadline.microtasks[i] = "done"

\* C10 as stated: after any completions, the deadline has progressPercent 100
\* and status "done" if and only if all its microtasks are done, and while some
\* microtask is not done it has neither.
C10_DoneIffAllDone ==
    SomeDone =>
        /\ AllDone <=> (deadline.progressPercent = 100 /\ deadline.status = "done")
        /\ ~AllDone => (deadline.progressPercent # 100 /\ deadline.status # "done")

--------------------------------------------------------------------------
(* Actions of SpecPlan *)

\* the microtask ids given to the completions: the first, the second, the last
PlanChoices == {1, 2, Len(deadline.microtasks)} \cap DOMAIN deadline.microtasks

\* the reporter's create_deadline
CreateDeadline ==
    /\ deadline = NoDeadline
    /\ \E days \in DueInDays :
        /\ daysLeft' = days
        /\ weeksOut' = calculateWeeksOut(days)
        /\ phase' = determinePhase(calculateWeeksOut(days))
        /\ deadline' = PlannedDeadline(calculateWeeksOut(days))
    /\ UNCHANGED NotPlan

\* a week passes
WeekPasses ==
    /\ deadline # NoDeadline
    /\ daysLeft - DaysPerWeek >= -MaxDaysPast
    /\ daysLeft' = daysLeft - DaysPerWeek
    /\ UNCHANGED <<weeksOut, phase, deadline>>
    /\ UNCHANGED NotPlan

\* the reporter's complete_microtask: the stored weeksOut and phase stay
PlanCompleteByReporter ==
    /\ deadline.completedMicrotasks < MaxPlanCompletions
    /\ \E i \in PlanChoices :
          deadline' = ReporterCompleteMicrotask(deadline, i)
    /\ UNCHANGED <<daysLeft, weeksOut, phase>>
    /\ UNCHANGED NotPlan

\* SharedMemoryManager.completeMicrotask: updateDeadlineProgress also stores
\* the weeks now left and their phase
PlanCompleteInMemory ==
    /\ \E i \in PlanChoices :
          deadline' = MemoryCompleteMicrotask(deadline, i)
    /\ weeksOut' = calculateWeeksOut(daysLeft)
    /\ phase' = calculatePhase(calculateWeeksOut(daysLeft))
    /\ UNCHANGED daysLeft
    /\ UNCHANGED NotPlan

PlanInit ==
    /\ backend = "docker"
    /\ errorListener = FALSE
    /\ RtFresh
    /\ ExIdle
    /\ CtlIdle /\ AsIdle /\ MdIdle /\ DmIdle /\ SxIdle /\ BrIdle /\ VdIdle /\ FwIdle /\ PfIdle /\ BkIdle /\ TnIdle /\ StIdle /\ AgIdle
    /\ PlanIdle
    /\ RouteIdle
    /\ DlIdle

PlanNext ==
    \/ CreateDeadline
    \/ WeekPasses
    \/ PlanCompleteByReporter
    \/ PlanCompleteInMemory

SpecPlan == PlanInit /\ [][PlanNext]_vars

Phases == {"planning", "building", "accelerating", "focusing", "taskforce"}

\* how urgent a phase is: planning least, taskforce most
Urgency(p) ==
    CASE p = "planning" -> 0
      [] p = "building" -> 1
      [] p = "accelerating" -> 2
      [] p = "focusing" -> 3
      [] p = "taskforce" -> 4

\* the step creates a deadline due two weeks away
CreatesTwoWeeksOut ==
    /\ deadline = NoDeadline
    /\ deadline' # NoDeadline
    /\ weeksOut' = 2

\* the step is the first completion made on a deadline two weeks out, and
\* completes its first microtask
CompletesFirstOfTwoWeeksOut ==
    /\ deadline # NoDeadline
    /\ weeksOut = 2
    /\ deadline.completedMicrotasks = 0
    /\ \A i \in DOMAIN deadline.microtasks : deadline.microtasks[i] = "pending"
    /\ deadline' # deadline
    /\ 1 \in DOMAIN deadline'.microtasks
    /\ deadline'.microtasks[1] = "done"

\* C11 as stated: a deadline the reporter creates two weeks ahead is in phase
\* "focusing" with exactly 4 microtasks, and completing the first of them
\* sets progressPercent to 25.
C11_FourMicrotasks ==
    [][/\ CreatesTwoWeeksOut =>
            /\ phase' = "focusing"
            /\ Len(deadline'.microtasks) = 4
       /\ CompletesFirstOfTwoWeeksOut => deadline'.progressPercent = 25]_vars

\* C11 (amended): a deadline the reporter creates two weeks ahead is in phase
\* "focusing" with exactly 12 microtasks, three for each of the four stages,
\* and completing the first of them sets progressPercent to 8.
C11_TwelveMicrotasks ==
    [][/\ CreatesTwoWeeksOut =>
            /\ phase' = "focusing"
            /\ Len(deadline'.microtasks) = 12
            /\ Len(decomposeMicrotasks(weeksOut')) = 12
            /\ \A s \in {"Planning", "Building", "Refining", "Finalizing"} :
                  Cardinality({i \in 1..12 :
                      decomposeMicrotasks(weeksOut')[i].contributesTo = s}) = 3
       /\ CompletesFirstOfTwoWeeksOut => deadline'.progressPercent = 8]_vars

\* a two-weeks-out deadline whose first microtask alone has been completed
C11_Witness ==
    /\ deadline # NoDeadline
    /\ weeksOut = 2
    /\ phase = "focusing"
    /\ Len(deadline.microtasks) = 12
    /\ deadline.microtasks[1] = "done"
    /\ \A i \in 2..12 : deadline.microtasks[i] = "pending"
    /\ deadline.completedMicrotasks = 1
    /\ deadline.progressPercent = 8

\* C12: the stored phase is one of the five phases and is what both the
\* reporter's and the memory store's phase function give for the stored
\* weeksOut; 10 weeks out is planning and 9 is building; and whenever the
\* stored weeksOut goes down the phase does not become less urgent.
C12_Phase ==
    [][(deadline' # NoDeadline) =>
          /\ phase' \in Phases
          /\ phase' = determinePhase(weeksOut')
          /\ phase' = calculatePhase(weeksOut')
          /\ weeksOut' = 10 => phase' = "planning"
          /\ weeksOut' = 9 => phase' = "building"
          /\ (deadline # NoDeadline /\ weeksOut' <= weeksOut) =>
                Urgency(phase') >= Urgency(phase)]_vars

\* a deadline created eleven weeks out (no deadline is created 60 days
\* ahead) whose phase was recomputed nine weeks out
C12_Witness ==
    /\ deadline # NoDeadline
    /\ 60 \notin DueInDays
    /\ daysLeft = 60
    /\ weeksOut = 9
    /\ phase = "building"
    /\ \E i \in DOMAIN deadline.microtasks : deadline.microtasks[i] = "done"

--------------------------------------------------------------------------
(* Actions of SpecAgents *)

\* a task record: the worker whose execute was called first, the worker the
\* primary worker delegates to ("none" if it does not), and the position of
\* the call
NewTask(worker, role, pc) == [worker |-> worker, role |-> role, pc |-> pc]

\* AgentOrchestrator.sendMessage up to its first await: the task goes to the
\* routed worker's execute without a look at the worker's status
AgentSendMessage ==
    /\ Len(agentTasks) < MaxTasks
    /\ \E type \in TaskTypes :
        LET target == routeToAgent(type) IN
        /\ agentStatus' = setStatus(agentStatus, target, BusyStatus(target))
        /\ agentTasks' = Append(agentTasks,
              NewTask(target, "none",
                      IF target = "companion" THEN "handling" ELSE "executing"))
    /\ UNCHANGED <<pendingDelegations, taskHistory>>
    /\ UNCHANGED NotAg

\* CompanionAgent.execute called with a task, up to its first await
CompanionExecute ==
    /\ Len(agentTasks) < MaxTasks
    /\ \E type \in TaskTypes :
        /\ agentStatus' = setStatus(agentStatus, "companion", BusyStatus("companion"))
        /\ agentTasks' = Append(agentTasks,
              NewTask("companion", DelegateRole(type),
                      IF DelegateRole(type) = "none" THEN "handling" ELSE "analyzing"))
    /\ UNCHANGED <<pendingDelegations, taskHistory>>
    /\ UNCHANGED NotAg

\* delegateToAgent to its await: the look at the target's status
DelegateCheck ==
    \E t \in DOMAIN agentTasks :
        /\ agentTasks[t].pc = "analyzing"
        /\ agentTasks' = [agentTasks EXCEPT ![t].pc =
              IF isAvailable(agentStatus, agentTasks[t].role)
              THEN "delegating" ELSE "queueing"]
        /\ UNCHANGED <<agentStatus, pendingDelegations, taskHistory>>
        /\ UNCHANGED NotAg

\* delegateToAgent, target busy: the task is put in pendingDelegations and
\* the call returns "queued"
DelegateQueue ==
    \E t \in DOMAIN agentTasks :
        /\ agentTasks[t].pc = "queueing"
        /\ pendingDelegations' = pendingDelegations \cup {t}
        /\ agentTasks' = [agentTasks EXCEPT ![t].pc = "returning"]
        /\ UNCHANGED <<agentStatus, taskHistory>>
        /\ UNCHANGED NotAg

\* delegateToAgent, target found idle: after the await, agent.execute
DelegateExecute ==
    \E t \in DOMAIN agentTasks :
        /\ agentTasks[t].pc = "delegating"
        /\ agentStatus' = setStatus(agentStatus, agentTasks[t].role,
                                    BusyStatus(agentTasks[t].role))
        /\ agentTasks' = [agentTasks EXCEPT ![t].pc = "delegated"]
        /\ UNCHANGED <<pendingDelegations, taskHistory>>
        /\ UNCHANGED NotAg

\* a specialist's execute ends: recordTask, and finally setStatus('idle')
WorkerFinish ==
    \E t \in DOMAIN agentTasks :
        LET w == IF agentTasks[t].pc = "delegated" THEN agentTasks[t].role
                 ELSE agentTasks[t].worker IN
        /\ agentTasks[t].pc \in {"executing", "delegated"}
        /\ taskHistory' = [taskHistory EXCEPT ![w] = @ \cup {t}]
        /\ agentStatus' = setStatus(agentStatus, w, "idle")
        /\ agentTasks' = [agentTasks EXCEPT ![t].pc =
              IF agentTasks[t].pc = "delegated" THEN "returning" ELSE "done"]
        /\ UNCHANGED pendingDelegations
        /\ UNCHANGED NotAg

\* the primary worker's execute ends: recordTask, and finally setStatus('idle')
CompanionFinish ==
    \E t \in DOMAIN agentTasks :
        /\ agentTasks[t].pc \in {"handling", "returning"}
        /\ taskHistory' = [taskHistory EXCEPT !["companion"] = @ \cup {t}]
        /\ agentStatus' = setStatus(agentStatus, "companion", "idle")
        /\ agentTasks' = [agentTasks EXCEPT ![t].pc = "done"]
        /\ UNCHANGED pendingDelegations
        /\ UNCHANGED NotAg

AgInit ==
    /\ backend = "docker"
    /\ errorListener = FALSE
    /\ RtFresh
    /\ ExIdle
    /\ CtlIdle /\ AsIdle /\ MdIdle /\ DmIdle /\ SxIdle /\ BrIdle /\ VdIdle /\ FwIdle /\ PfIdle /\ BkIdle /\ TnIdle /\ StIdle
    /\ RouteIdle
    /\ DlIdle
    /\ PlanIdle
    /\ AgIdle

AgNext ==
    \/ AgentSendMessage
    \/ CompanionExecute
    \/ DelegateCheck
    \/ DelegateQueue
    \/ DelegateExecute
    \/ WorkerFinish
    \/ CompanionFinish

SpecAgents == AgInit /\ [][AgNext]_vars

\* the tasks worker w is executing
InFlight(w) ==
    {t \in DOMAIN agentTasks :
        \/ /\ agentTasks[t].worker = w
           /\ agentTasks[t].pc \notin {"done"}
        \/ /\ agentTasks[t].role = w
           /\ agentTasks[t].pc = "delegated"}

\* nothing is left to run: every call has returned
Quiescent == \A t \in DOMAIN agentTasks : agentTasks[t].pc = "done"

\* C13: a task queued because its target was busy is not dropped: when the
\* target is idle again and every call has returned, the target has
\* executed the queued task.
C13_QueuedIsExecuted ==
    \A t \in pendingDelegations :
        (Quiescent /\ agentStatus[agentTasks[t].role] = "idle")
            => t \in taskHistory[agentTasks[t].role]

\* C14: each worker has at most one task in flight.
C14_OneTaskInFlight ==
    \A w \in Workers : Cardinality(InFlight(w)) <= 1

--------------------------------------------------------------------------
(* Actions of SpecStore *)

\* what a step of the store records: the operation, how many times it ran
\* saveAll, and the dirty flag and the timer before it
StoreStep(op, wrote) ==
    [op |-> op, wrote |-> wrote, wasDirty |-> isDirty,
     wasDisposed |-> ~autoSaveTimer]

\* a mutating accessor: the change, then markDirty()
Mutate(op, mem) ==
    /\ memoryDb' = mem
    /\ isDirty' = TRUE
    /\ storeStep' = StoreStep(op, 0)
    /\ UNCHANGED <<autoSaveTimer, dataDir, freshDb>>
    /\ UNCHANGED NotSt

\* SharedMemoryManager.addContact
StoreAddContact ==
    /\ ItemCount(memoryDb) < MaxItems
    /\ \E last \in {Undefined, GivenDate} :
          Mutate("addContact",
                 [memoryDb EXCEPT !.contacts = Append(@, [lastContact |-> last])])

\* SharedMemoryManager.addDeadline, with one pending microtask and one
\* planned contribution
StoreAddDeadline ==
    /\ ItemCount(memoryDb) < MaxItems
    /\ \E contributed \in {Undefined, GivenDate} :
          Mutate("addDeadline",
                 [memoryDb EXCEPT !.deadlines = Append(@,
                     [dueDate |-> GivenDate, createdAt |-> NowDate,
                      microtasks |-> <<[completedAt |-> Undefined]>>,
                      agentContributions |-> <<[completedAt |-> contributed]>>])])

\* SharedMemoryManager.completeMicrotask
StoreCompleteMicrotask ==
    \E i \in DOMAIN memoryDb.deadlines :
        /\ memoryDb.deadlines[i].microtasks[1].completedAt = Undefined
        /\ Mutate("completeMicrotask",
                  [memoryDb EXCEPT !.deadlines[i].microtasks[1].completedAt =
                       NowDate])

\* SharedMemoryManager.addJournalEntry
StoreAddJournalEntry ==
    /\ ItemCount(memoryDb) < MaxItems
    /\ Mutate("addJournalEntry",
              [memoryDb EXCEPT !.journal.entries =
                   Append(@, [timestamp |-> NowDate])])

\* SharedMemoryManager.recordAssessment
StoreRecordAssessment ==
    /\ ItemCount(memoryDb) < MaxItems
    /\ Mutate("recordAssessment",
              [memoryDb EXCEPT !.journal.assessments =
                   Append(@, [date |-> NowDate])])

\* the setInterval callback without the test of the dirty flag
AutoSaveTick_Always ==
    /\ autoSaveTimer
    /\ dataDir' = saveAll(memoryDb)
    /\ isDirty' = FALSE
    /\ storeStep' = StoreStep("tick", 1)
    /\ UNCHANGED <<memoryDb, autoSaveTimer, freshDb>>
    /\ UNCHANGED NotSt

\* the setInterval callback of startAutoSave
AutoSaveTick ==
    /\ autoSaveTimer
    /\ IF isDirty
       THEN /\ dataDir' = saveAll(memoryDb)
            /\ isDirty' = FALSE
            /\ storeStep' = StoreStep("tick", 1)
       ELSE /\ UNCHANGED <<dataDir, isDirty>>
            /\ storeStep' = StoreStep("tick", 0)
    /\ UNCHANGED <<memoryDb, autoSaveTimer, freshDb>>
    /\ UNCHANGED NotSt

\* SharedMemoryManager.dispose, which the orchestrator's shutdown calls once
StoreDispose ==
    /\ autoSaveTimer
    /\ autoSaveTimer' = FALSE
    /\ IF isDirty
       THEN /\ dataDir' = saveAll(memoryDb)
            /\ storeStep' = StoreStep("dispose", 1)
       ELSE /\ UNCHANGED dataDir
            /\ storeStep' = StoreStep("dispose", 0)
    /\ UNCHANGED <<memoryDb, isDirty, freshDb>>
    /\ UNCHANGED NotSt

\* the constructor of a fresh store on the same data directory
StoreLoadFresh ==
    /\ freshDb' = loadPersistedData(dataDir)
    /\ storeStep' = StoreStep("load", 0)
    /\ UNCHANGED <<memoryDb, isDirty, autoSaveTimer, dataDir>>
    /\ UNCHANGED NotSt

\* a worker's write to the shared memory object it was constructed with:
\* the change without markDirty(), which is private to the store
DirectWrite(op, mem) ==
    /\ memoryDb' = mem
    /\ storeStep' = StoreStep(op, 0)
    /\ UNCHANGED <<isDirty, autoSaveTimer, dataDir, freshDb>>
    /\ UNCHANGED NotSt

\* ReporterAgent.createDeadline: this.memory.deadlines.deadlines.push
ReporterCreateDeadline ==
    /\ ItemCount(memoryDb) < MaxItems
    /\ DirectWrite("createDeadline",
                   [memoryDb EXCEPT !.deadlines = Append(@,
                       [dueDate |-> GivenDate, createdAt |-> NowDate,
                        microtasks |-> <<[completedAt |-> Undefined]>>,
                        agentContributions |-> <<[completedAt |-> Undefined]>>])])

\* CompanionAgent.handleJournalEntry: this.memory.journal.entries.push
CompanionJournalEntry ==
    /\ ItemCount(memoryDb) < MaxItems
    /\ DirectWrite("journalEntry",
                   [memoryDb EXCEPT !.journal.entries =
                        Append(@, [timestamp |-> NowDate])])

StInit ==
    /\ backend = "docker"
    /\ errorListener = FALSE
    /\ RtFresh
    /\ ExIdle
    /\ CtlIdle /\ AsIdle /\ MdIdle /\ DmIdle /\ SxIdle /\ BrIdle /\ VdIdle /\ FwIdle /\ PfIdle /\ BkIdle /\ TnIdle
    /\ RouteIdle
    /\ DlIdle
    /\ PlanIdle
    /\ AgIdle
    /\ memoryDb = initializeMemory
    /\ isDirty = FALSE
    /\ autoSaveTimer = TRUE
    /\ dataDir = NoFiles
    /\ freshDb = initializeMemory
    /\ storeStep = NoStoreStep

StNext ==
    \/ StoreAddContact
    \/ StoreAddDeadline
    \/ StoreCompleteMicrotask
    \/ StoreAddJournalEntry
    \/ StoreRecordAssessment
    \/ ReporterCreateDeadline
    \/ CompanionJournalEntry
    \/ AutoSaveTick
    \/ StoreDispose
    \/ StoreLoadFresh

SpecStore == StInit /\ [][StNext]_vars

C15_WitnessAfterDispose ==
    /\ storeStep.wasDisposed
    /\ storeStep.op = "addJournalEntry"
    /\ isDirty
    /\ dataDir # saveAll(memoryDb)

\* the files hold what the memory holds
Saved == ~isDirty /\ dataDir = saveAll(memoryDb)

\* the fresh store was loaded from the files as they are
Loaded == storeStep.op = "load"

\* C16: after a save, a fresh store loaded from the files has the same
\* contacts, deadlines and journal as the saving store, dates as dates; with
\* no file it has the empty databases.
C16_SaveLoadRoundTrip ==
    /\ (Loaded /\ Saved) => freshDb = memoryDb
    /\ (Loaded /\ dataDir = NoFiles) => freshDb = initializeMemory

--------------------------------------------------------------------------
(* Actions of SpecTurn *)

\* sendMessage to the await of anthropic.messages.create in generateResponse
TurnSendMessage ==
    /\ turn.pc = "idle"
    /\ currentTask' = "controller"
    /\ conversationHistory' = Append(conversationHistory, "user")
    /\ turn' = [turn EXCEPT !.pc = "model"]
    /\ UNCHANGED <<aborted, toolEffects, runtimeUp>>
    /\ UNCHANGED NotTn

\* cancelCurrentTask: abort() on the controller; no wait holds its signal
CancelCurrentTask ==
    /\ currentTask # "null"
    /\ aborted' = TRUE
    /\ currentTask' = "null"
    /\ turn' = [turn EXCEPT !.cancelledAt = turn.pc]
    /\ UNCHANGED <<conversationHistory, toolEffects, runtimeUp>>
    /\ UNCHANGED NotTn

\* the model's response arrives: processResponse starts on its blocks
ModelReplies ==
    /\ turn.pc = "model"
    /\ \E n \in 0..MaxBlocks, stop \in {"tool_use", "end_turn"} :
       \E blocks \in [1..n -> ValidCalls] :
          turn' = [turn EXCEPT !.pc = "tools", !.blocks = blocks,
                               !.stop = stop, !.index = 1]
    /\ UNCHANGED <<currentTask, aborted, conversationHistory, toolEffects, runtimeUp>>
    /\ UNCHANGED NotTn

\* the model call rejects: sendMessage's finally, and the error to the caller
ModelRejects ==
    /\ turn.pc = "model"
    /\ turn' = [turn EXCEPT !.pc = "failed"]
    /\ currentTask' = "null"
    /\ UNCHANGED <<aborted, conversationHistory, toolEffects, runtimeUp>>
    /\ UNCHANGED NotTn

\* the call's result is stored and the loop goes to the next block
ToolDone(outcome) ==
    [turn EXCEPT !.outcomes = Append(@, outcome),
                 !.results = Append(@, [of |-> turn.index,
                     result |-> ToolResult(turn.blocks[turn.index], outcome)]),
                 !.index = @ + 1,
                 !.pc = "tools"]

\* processResponse at a tool_use block: executeTool to its first await
ToolBegin ==
    /\ turn.pc = "tools"
    /\ turn.index <= Len(turn.blocks)
    /\ LET call == turn.blocks[turn.index]
           route == ToolRoute(call)
       IN  CASE route = "unknown" ->
                  /\ turn' = ToolDone("unknown")
                  /\ UNCHANGED toolEffects
             [] route = "throws" ->
                  /\ turn' = ToolDone("throws")
                  /\ UNCHANGED toolEffects
             [] route = "memory" ->
                  /\ turn' = ToolDone("ok")
                  /\ toolEffects' = Append(toolEffects,
                        [by |-> turn.index, kind |-> "memory"])
             [] route = "isolation" /\ ~runtimeUp ->
                  /\ turn' = ToolDone("not_running")
                  /\ UNCHANGED toolEffects
             [] route = "isolation" /\ runtimeUp ->
                  /\ turn' = [turn EXCEPT !.pc = "tool_wait"]
                  /\ toolEffects' = Append(toolEffects,
                        [by |-> turn.index,
                         kind |-> IF call.name = "bash" THEN "command" ELSE "file"])
    /\ UNCHANGED <<currentTask, aborted, conversationHistory, runtimeUp>>
    /\ UNCHANGED NotTn

\* the runtime settles the dispatched operation
ToolEnd ==
    /\ turn.pc = "tool_wait"
    /\ \E outcome \in {"ok", "nonzero", "backend_error"} :
        /\ outcome = "nonzero" => turn.blocks[turn.index].name = "bash"
        /\ turn' = ToolDone(outcome)
    /\ UNCHANGED <<currentTask, aborted, conversationHistory, toolEffects, runtimeUp>>
    /\ UNCHANGED NotTn

\* processResponse after the last block, and sendMessage to its return
TurnFinish ==
    /\ turn.pc = "tools"
    /\ turn.index > Len(turn.blocks)
    /\ conversationHistory' =
          (IF turn.blocks # <<>> /\ turn.stop # "end_turn"
           THEN Append(conversationHistory, "assistant")
           ELSE conversationHistory) \o <<"assistant">>
    /\ currentTask' = "null"
    /\ turn' = [turn EXCEPT !.pc = "done"]
    /\ UNCHANGED <<aborted, toolEffects, runtimeUp>>
    /\ UNCHANGED NotTn

TnInit ==
    /\ backend = "docker"
    /\ errorListener = FALSE
    /\ RtFresh
    /\ ExIdle
    /\ CtlIdle /\ AsIdle /\ MdIdle /\ DmIdle /\ SxIdle /\ BrIdle /\ VdIdle /\ FwIdle /\ PfIdle /\ BkIdle
    /\ RouteIdle
    /\ DlIdle
    /\ PlanIdle
    /\ AgIdle
    /\ StIdle
    /\ turn = NoTurn
    /\ currentTask = "null"
    /\ aborted = FALSE
    /\ conversationHistory = <<>>
    /\ toolEffects = <<>>
    /\ runtimeUp \in BOOLEAN

TnNext ==
    \/ TurnSendMessage
    \/ CancelCurrentTask
    \/ ModelReplies
    \/ ModelRejects
    \/ ToolBegin
    \/ ToolEnd
    \/ TurnFinish

SpecTurn == TnInit /\ [][TnNext]_vars

\* the model's reply is in the history
ReplyAppended == \E i \in DOMAIN conversationHistory : conversationHistory[i] = "assistant"

\* C17: a cancelCurrentTask made during the wait on the model aborts the
\* wait: the request goes on to no tool call and ends without a reply
\* appended to the history.
C17_CancelAbortsWait ==
    turn.cancelledAt = "model" =>
        /\ turn.pc \in {"model", "failed"}
        /\ ~ReplyAppended

\* the calls that failed or threw
Failed(i) == turn.outcomes[i] \in {"unknown", "not_running", "backend_error", "throws"}

\* C18: every tool call that failed or threw has a result with isError
\* and the error message; the results are those of the response's calls in
\* their order, none left out after a failure; and the finished turn has
\* its assistant message.
C18_ToolFailureIsAResult ==
    /\ Len(turn.results) = Len(turn.outcomes)
    /\ \A i \in DOMAIN turn.results :
          /\ turn.results[i].of = i
          /\ Failed(i) =>
                /\ turn.results[i].result.isError
                /\ turn.results[i].result.content \in
                      {"Unknown tool", "Tool execution error"}
    /\ turn.pc = "done" =>
          /\ Len(turn.results) = Len(turn.blocks)
          /\ conversationHistory[Len(conversationHistory)] = "assistant"

\* a finished turn whose first call failed and whose second call ran
C18_Witness ==
    /\ turn.pc = "done"
    /\ Len(turn.blocks) = 2
    /\ Failed(1)
    /\ turn.results[1].result.isError
    /\ turn.outcomes[2] = "ok"
    /\ \E k \in DOMAIN toolEffects : toolEffects[k].by = 2

\* C20: a call that leaves out a required field has a failed result and
\* no effect: no command, no file operation, no change of the memory.
C20_MissingFieldRejected ==
    \A i \in DOMAIN turn.blocks :
        turn.blocks[i].missing # "none" =>
            /\ i \in DOMAIN turn.results => turn.results[i].result.isError
            /\ \A k \in DOMAIN toolEffects : toolEffects[k].by # i

--------------------------------------------------------------------------
(* Actions of SpecExport *)

\* the loop is entered with n files
StartCopying(handler, n) ==
    [NoExport EXCEPT !.handler = handler, !.files = n, !.index = 1,
                     !.pc = IF n = 0 THEN "returned" ELSE "copying"]

\* files:export: the dialog, then the loop
FilesExport ==
    /\ bulk.pc = "idle"
    /\ \E n \in 0..MaxFiles, canceled \in BOOLEAN :
          bulk' = IF canceled
                  THEN [NoExport EXCEPT !.handler = "files:export", !.files = n,
                                        !.pc = "canceled"]
                  ELSE StartCopying("files:export", n)
    /\ UNCHANGED NotBk

\* session:stop with saveFiles and files
SessionStopSaveFiles ==
    /\ bulk.pc = "idle"
    /\ \E n \in 0..MaxFiles : bulk' = StartCopying("session:stop", n)
    /\ UNCHANGED NotBk

\* FileTransferManager.exportFiles, after mkdir
ExportFiles ==
    /\ bulk.pc = "idle"
    /\ \E n \in 0..MaxFiles : bulk' = StartCopying("exportFiles", n)
    /\ UNCHANGED NotBk

\* the loop after file i: the next file, or the return after the last
Continue(b) ==
    [b EXCEPT !.index = @ + 1,
              !.pc = IF b.index = b.files THEN "returned" ELSE "copying"]

\* one turn of the loop: copyFromEnvironment (or access and copyFile) for
\* the file at index; an error leaves the loop and is thrown to the caller
CopyFile ==
    /\ bulk.pc = "copying"
    /\ \E outcome \in {"copied", "not_found", "error"} :
        /\ outcome = "not_found" => bulk.handler = "exportFiles"
        /\ bulk' =
             CASE outcome = "copied" ->
                    Continue([bulk EXCEPT !.copied = @ \cup {bulk.index}])
               [] outcome = "not_found" ->
                    Continue([bulk EXCEPT !.skipped = @ \cup {bulk.index}])
               [] outcome = "error" ->
                    [bulk EXCEPT !.failed = @ \cup {bulk.index}, !.pc = "thrown"]
    /\ UNCHANGED NotBk

BkInit ==
    /\ backend = "docker"
    /\ errorListener = FALSE
    /\ RtFresh
    /\ ExIdle
    /\ CtlIdle /\ AsIdle /\ MdIdle /\ DmIdle /\ SxIdle /\ BrIdle /\ VdIdle /\ FwIdle /\ PfIdle
    /\ RouteIdle
    /\ DlIdle
    /\ PlanIdle
    /\ AgIdle
    /\ StIdle
    /\ TnIdle
    /\ bulk = NoExport

BkNext ==
    \/ FilesExport
    \/ SessionStopSaveFiles
    \/ ExportFiles
    \/ CopyFile

SpecExport == BkInit /\ [][BkNext]_vars

\* C19: when a bulk export has ended, every file other than the ones whose
\* copy failed (or that were not there) has been copied.
C19_OthersStillCopied ==
    bulk.pc \in {"returned", "thrown"} =>
        \A i \in 1..bulk.files :
            i \in bulk.copied \cup bulk.skipped \cup bulk.failed

--------------------------------------------------------------------------
(* Actions of SpecProfile *)

\* the partial profiles given to updateProfile
PartialProfiles ==
    {[NoUpdate EXCEPT !.partial = p, !.network = n, !.resources = r] :
        p \in (SUBSET {"network", "resources"}) \ {{}},
        n \in NetworkSettings, r \in ResourceSettings}

\* start(profile) has run: the environment was created from the profile
ProfileStart ==
    /\ profileState.backend = "none"
    /\ \E b \in {"docker", "vm"}, n \in NetworkSettings, r \in ResourceSettings :
          profileState' = [NoProfileState EXCEPT
              !.backend = b,
              !.profile = [network |-> n, resources |-> r],
              !.environment = [network |-> n, resources |-> r]]
    /\ UNCHANGED NotPf

\* DockerIsolationManager.updateProfile: console.warn, container.update of
\* the resources if given, the merge, and a void return
DockerUpdateProfile ==
    /\ profileState.backend = "docker"
    /\ profileState.updates < MaxUpdates
    /\ \E call \in PartialProfiles, updated \in BOOLEAN :
        /\ ~updated => "resources" \in call.partial
        /\ profileState' =
             IF updated
             THEN [profileState EXCEPT
                     !.updates = @ + 1,
                     !.environment.resources =
                         IF "resources" \in call.partial THEN call.resources ELSE @,
                     !.profile = MergeProfile(@, call),
                     !.call = [call EXCEPT !.pc = "resolved", !.returned = "undefined"]]
             ELSE [profileState EXCEPT
                     !.updates = @ + 1,
                     !.call = [call EXCEPT !.pc = "rejected", !.returned = "error"]]
    /\ UNCHANGED NotPf

\* VMIsolationManager.updateProfile to its await: update_profile is sent
VMUpdateProfile ==
    /\ profileState.backend = "vm"
    /\ profileState.updates < MaxUpdates
    /\ profileState.call.pc # "sent"
    /\ \E call \in PartialProfiles :
          profileState' = [profileState EXCEPT
              !.updates = @ + 1, !.call = [call EXCEPT !.pc = "sent"]]
    /\ UNCHANGED NotPf

\* the helper's reply: on a result the merge, profile:updated and a void
\* return; which of the fields the helper applied is the helper's choice
VMUpdateProfileReply ==
    /\ profileState.call.pc = "sent"
    /\ \E ok \in BOOLEAN, applied \in SUBSET profileState.call.partial :
        LET call == profileState.call IN
        /\ ~ok => applied = {}
        /\ profileState' =
             IF ok
             THEN [profileState EXCEPT
                     !.environment = MergeProfile(@, [call EXCEPT !.partial = applied]),
                     !.profile = MergeProfile(@, call),
                     !.call = [call EXCEPT !.pc = "resolved", !.returned = "undefined",
                                           !.emitted = "profile:updated"]]
             ELSE [profileState EXCEPT
                     !.call = [call EXCEPT !.pc = "rejected", !.returned = "error"]]
    /\ UNCHANGED NotPf

PfInit ==
    /\ backend = "docker"
    /\ errorListener = FALSE
    /\ RtFresh
    /\ ExIdle
    /\ CtlIdle /\ AsIdle /\ MdIdle /\ DmIdle /\ SxIdle /\ BrIdle /\ VdIdle /\ FwIdle
    /\ RouteIdle
    /\ DlIdle
    /\ PlanIdle
    /\ AgIdle
    /\ StIdle
    /\ TnIdle
    /\ BkIdle
    /\ profileState = NoProfileState

PfNext ==
    \/ ProfileStart
    \/ DockerUpdateProfile
    \/ VMUpdateProfile
    \/ VMUpdateProfileReply

SpecProfile == PfInit /\ [][PfNext]_vars

\* the fields of the last call that the environment does not run with
NotInEffect ==
    {f \in profileState.call.partial :
        \/ f = "network" /\ profileState.environment.network # profileState.call.network
        \/ f = "resources" /\ profileState.environment.resources # profileState.call.resources}

\* C21: an updateProfile that has returned with a field that did not take
\* effect in the environment told its caller so: it did not return void.
C21_RestartSurfaced ==
    (profileState.call.pc = "resolved" /\ NotInEffect # {})
        => profileState.call.returned # "undefined"

--------------------------------------------------------------------------
(* Actions of SpecForward *)

\* CompanionAgent.delegateToAgent with an idle target: the task given to
\* agent.execute
ForwardTask ==
    /\ forwardedTask = NoAgentTask
    /\ forwardedTask' = DelegatedTask(receivedTask, "companion")
    /\ UNCHANGED receivedTask
    /\ UNCHANGED NotFw

FwInit ==
    /\ backend = "docker"
    /\ errorListener = FALSE
    /\ RtFresh
    /\ ExIdle
    /\ CtlIdle /\ AsIdle /\ MdIdle /\ DmIdle /\ SxIdle /\ BrIdle /\ VdIdle
    /\ RouteIdle
    /\ DlIdle
    /\ PlanIdle
    /\ AgIdle
    /\ StIdle
    /\ TnIdle
    /\ BkIdle
    /\ PfIdle
    /\ receivedTask \in AgentTasks
    /\ forwardedTask = NoAgentTask

FwNext == ForwardTask

SpecForward == FwInit /\ [][FwNext]_vars

\* C22: a forwarded task that came with a delegatedBy keeps it; delegatedBy
\* is filled in only when the task came without one.
C22_ProvenanceKept ==
    forwardedTask # NoAgentTask =>
        forwardedTask.delegatedBy =
            IF receivedTask.delegatedBy = "absent" THEN "companion"
            ELSE receivedTask.delegatedBy

\* C23: lifecycle notifications follow starting, started, stopping, stopped,
\* cut short by at most one error: among the notifications one step emits,
\* nothing follows error and none is emitted twice.
C23_NothingFollowsError ==
    \A i \in 1..Len(events) :
        /\ events[i][1] = "error" => i = Len(events)
        /\ \A j \in 1..Len(events) : events[i][1] = events[j][1] => i = j

\* C24: in the state in which a stop() of a running session resolves, the
\* session's container is no longer running in the engine and no helper
\* process is alive.
C24_StoppedMeansGone ==
    \A x \in step.settled :
        (x.op = "stop" /\ step.pre.running) =>
            /\ step.pre.sessionId \notin engine
            /\ \A p \in DOMAIN helper : helper[p] \notin {"spawned", "ready"}

\* C25: a request whose response carried tool calls is finished only by a
\* response that ended the turn: after a response that stopped for tool use
\* the results go back to the model and the turn continues.
C25_ToolLoopContinues ==
    (turn.pc = "done" /\ turn.blocks # <<>>) => turn.stop = "end_turn"

--------------------------------------------------------------------------
(* Actions of SpecVAD *)

\* VAD.process(chunk)
VadProcess ==
    /\ Len(processed) < MaxChunks
    /\ \E chunk \in AudioChunks :
          LET r == process([isSpeaking |-> isSpeaking,
                            lastSpeechTime |-> lastSpeechTime], chunk)
          IN  /\ isSpeaking' = r.isSpeaking
              /\ lastSpeechTime' = r.lastSpeechTime
              /\ processed' = Append(processed,
                    [chunk |-> chunk, emitted |-> r.emitted,
                     returned |-> r.returned])
    /\ UNCHANGED NotVd

\* VAD.reset
VadReset ==
    /\ processed # <<>>
    /\ isSpeaking' = FALSE
    /\ lastSpeechTime' = 0
    /\ processed' = <<>>
    /\ UNCHANGED NotVd

VdInit ==
    /\ backend = "docker"
    /\ errorListener = FALSE
    /\ RtFresh
    /\ ExIdle
    /\ CtlIdle /\ AsIdle /\ MdIdle /\ DmIdle /\ SxIdle /\ BrIdle
    /\ RouteIdle
    /\ DlIdle
    /\ PlanIdle
    /\ AgIdle
    /\ StIdle
    /\ TnIdle
    /\ BkIdle
    /\ PfIdle
    /\ FwIdle
    /\ VdIdle

VdNext == VadProcess \/ VadReset

SpecVAD == VdInit /\ [][VdNext]_vars

\* the chunks process() returned for, in order
Returned == SelectSeq(processed, LAMBDA e : e.returned # "throws")

RECURSIVE EmittedBy(_)
\* the events the detector emitted over a sequence of chunks, in order
EmittedBy(es) ==
    IF es = <<>> THEN <<>> ELSE Head(es).emitted \o EmittedBy(Tail(es))

Has(seq, x) == \E i \in 1..Len(seq) : seq[i] = x

\* C26: over the chunks processed since construction or reset, the events
\* emitted are speech-start, speech-end, speech-start, ... in turn; a chunk
\* emits speech-start exactly when it is above the threshold and the events
\* before it left the detector not speaking; it emits speech-end only when it
\* is below the threshold and its timestamp is more than 1500 ms after that of
\* the latest chunk above the threshold; and process() returns isSpeech = true
\* exactly for the chunks above the threshold.
C26_SpeechEventsAlternate ==
    LET es == Returned
        ev == EmittedBy(es)
        Above(k) == ExceedsThreshold(es[k].chunk.data.samples)
    IN  /\ \A i \in 1..Len(ev) :
              ev[i] = IF i % 2 = 1 THEN "speech-start" ELSE "speech-end"
        /\ \A k \in 1..Len(es) :
              /\ Has(es[k].emitted, "speech-start") <=>
                    (Above(k) /\ Len(EmittedBy(SubSeq(es, 1, k - 1))) % 2 = 0)
              /\ Has(es[k].emitted, "speech-end") =>
                    /\ ~Above(k)
                    /\ \E j \in 1..(k - 1) :
                          /\ Above(j)
                          /\ \A m \in (j + 1)..(k - 1) : ~Above(m)
                          /\ es[k].chunk.timestamp - es[j].chunk.timestamp > 1500
              /\ (es[k].returned = "true") <=> Above(k)

\* speech started, paused for more than the silence limit and ended
C26_Witness ==
    /\ Len(processed) = 3
    /\ processed[1].emitted = <<"speech-start">>
    /\ processed[2].emitted = <<>>
    /\ processed[2].returned = "false"
    /\ processed[3].emitted = <<"speech-end">>

\* C27: whatever the interleaving of start() calls on one instance, at most
\* one helper process is alive and at most one container runs, and a start()
\* entered while an earlier start() has not settled is rejected in the same
\* step.
C27_OneStartWins ==
    /\ Cardinality({p \in DOMAIN helper : helper[p] \in {"spawned", "ready"}}) <= 1
    /\ Cardinality(engine) <= 1
    /\ (/\ step.op = "start"
        /\ \E c \in 1..(Len(calls) - 1) :
              calls[c].op = "start" /\ calls[c].pc # "done")
           => \E x \in step.settled : x.c = Len(calls) /\ x.res = "already_running"

\* the ways a request sent to the helper is settled
Settlements ==
    { [kind |-> "resolve", err |-> "none"],
      [kind |-> "reject", err |-> "backend_error"],
      [kind |-> "reject", err |-> "timeout"],
      [kind |-> "reject", err |-> "write_error"],
      [kind |-> "reject", err |-> "vm_stopped"] }

\* C28: a request a step settles was pending when the step began and is not
\* pending after it, is settled once in the step, and by a response, the
\* command timeout, a write failure or cleanup; a call awaits a request
\* exactly while the request is pending; and a response to a request that is
\* not pending settles nothing, emits nothing and leaves the pending map, the
\* running flag, the session id and the profile as they were.
C28_SettledExactlyOnce ==
    /\ \A r \in step.reqs :
          r.err # "bridge_not_running" =>
              /\ InSeq(step.pre.pending, r.id)
              /\ ~InSeq(pendingCommands, r.id)
              /\ [kind |-> r.kind, err |-> r.err] \in Settlements
              /\ \A q \in step.reqs : q.id = r.id => q = r
    /\ \A c \in DOMAIN calls :
          calls[c].pc = "waitResp" <=> InSeq(pendingCommands, c)
    /\ step.op = "lateResponse" =>
          /\ step.reqs = {}
          /\ step.settled = {}
          /\ events = <<>>
          /\ pendingCommands = step.pre.pending
          /\ running = step.pre.running
          /\ sessionId = step.pre.sessionId
          /\ profile = step.pre.profile

\* a request is rejected by the command timeout while the helper it was sent
\* to is alive, so that its response can still arrive late
C28_Witness ==
    \E r \in step.reqs :
        /\ r.err = "timeout"
        /\ helper[reqTo[r.id]] \in {"spawned", "ready"}

\* the response of a request that is no longer pending has just been handled
\* while another request is pending
C28_WitnessLate ==
    /\ step.op = "lateResponse"
    /\ pendingCommands # <<>>

--------------------------------------------------------------------------
(* Actions of SpecBridge *)

\* the stream delivers the next len characters of the helper's output as one
\* 'data' event
BridgeData ==
    /\ \E len \in 1..Len(bridge.unread) :
          bridge' = OnStdoutData(
                        [bridge EXCEPT !.unread = SubSeq(@, len + 1, Len(@))],
                        NonEmptyLines(SubSeq(bridge.unread, 1, len)))
    /\ UNCHANGED NotBr

BrInit ==
    /\ backend = "docker"
    /\ errorListener = FALSE
    /\ RtFresh
    /\ ExIdle
    /\ CtlIdle /\ AsIdle /\ MdIdle /\ DmIdle /\ SxIdle
    /\ RouteIdle
    /\ DlIdle
    /\ PlanIdle
    /\ AgIdle
    /\ StIdle
    /\ TnIdle
    /\ BkIdle
    /\ PfIdle
    /\ FwIdle
    /\ VdIdle
    /\ \E n \in 1..MaxMessages :
          bridge = [NoBridge EXCEPT !.written = n, !.unread = HelperWrites(n)]

BrNext == BridgeData

SpecBridge == BrInit /\ [][BrNext]_vars

\* C29: once all of the helper's output has been read, the messages given to
\* the message handler are the messages the helper wrote, each once and in
\* order, however the output was cut into chunks.
C29_EveryMessageHandled ==
    bridge.unread = <<>> =>
        bridge.handled = [k \in 1..bridge.written |-> k]

--------------------------------------------------------------------------
(* Actions of SpecStream *)

\* executeStream(cmd, onOutput) for a command that exits with code, up to its
\* await
ExecuteStream ==
    /\ xs.pc = "idle"
    /\ \E be \in Backends, code \in 0..MaxExitCode :
          xs' = [NoStream EXCEPT
                    !.backend = be, !.pc = "waiting", !.code = code,
                    !.listening = (be = "vm"),
                    !.unsent = IF be = "vm" THEN VMStreamMessages
                                            ELSE DockerStreamFrames]
    /\ UNCHANGED NotSx

\* a 'data' event of the helper's stdout, and the microtasks after it
VMStreamData ==
    /\ xs.backend = "vm"
    /\ \E msgs \in Batches(xs.unsent) :
          xs' = VMStreamReturn(
                    OnStreamData([xs EXCEPT !.unsent = @ \ SeqRange(msgs)], msgs))
    /\ UNCHANGED NotSx

\* stream.on('data'): one multiplexed frame of the container's output
DockerStreamFrame ==
    /\ xs.backend = "docker"
    /\ xs.pc = "waiting"
    /\ \E f \in xs.unsent :
          xs' = [xs EXCEPT !.unsent = @ \ {f}, !.output = Append(@, f)]
    /\ UNCHANGED NotSx

\* stream.on('end') up to its await of exec.inspect()
DockerStreamEnd ==
    /\ xs.backend = "docker"
    /\ xs.pc = "waiting"
    /\ xs.unsent = {}
    /\ xs' = [xs EXCEPT !.pc = "inspect"]
    /\ UNCHANGED NotSx

\* resolve(inspect.ExitCode ?? 0)
DockerStreamInspected ==
    /\ xs.pc = "inspect"
    /\ xs' = [xs EXCEPT !.pc = "resolved", !.resolved = xs.code]
    /\ UNCHANGED NotSx

SxInit ==
    /\ backend = "docker"
    /\ errorListener = FALSE
    /\ RtFresh
    /\ ExIdle
    /\ CtlIdle /\ AsIdle /\ MdIdle /\ DmIdle
    /\ RouteIdle
    /\ DlIdle
    /\ PlanIdle
    /\ AgIdle
    /\ StIdle
    /\ TnIdle
    /\ BkIdle
    /\ PfIdle
    /\ FwIdle
    /\ VdIdle
    /\ BrIdle
    /\ SxIdle

SxNext ==
    \/ ExecuteStream
    \/ VMStreamData
    \/ DockerStreamFrame
    \/ DockerStreamEnd
    \/ DockerStreamInspected

SpecStream == SxInit /\ [][SxNext]_vars

\* C30: on either backend and for every order of the stream frames and the
\* response, executeStream resolves to the exit code of its command.
C30_ResolvesToExitCode ==
    xs.pc = "resolved" => xs.resolved = xs.code

--------------------------------------------------------------------------
(* Actions of SpecDemux *)

\* stream.on('data') for the next len bytes of the stream
DemuxData ==
    /\ demux.pc = "reading"
    /\ \E len \in 1..Len(demux.unread) :
          demux' = OnData([demux EXCEPT !.unread = SubSeq(@, len + 1, Len(@))],
                          SubSeq(demux.unread, 1, len))
    /\ UNCHANGED NotDm

\* stream.on('end'): execute resolves with the trimmed strings
DemuxEnd ==
    /\ demux.pc = "reading"
    /\ demux.unread = <<>>
    /\ demux' = [demux EXCEPT !.pc = "resolved",
                    !.result = [stdout |-> Trim(demux.stdout),
                                stderr |-> Trim(demux.stderr)]]
    /\ UNCHANGED NotDm

DmInit ==
    /\ backend = "docker"
    /\ errorListener = FALSE
    /\ RtFresh
    /\ ExIdle
    /\ CtlIdle /\ AsIdle /\ MdIdle
    /\ RouteIdle
    /\ DlIdle
    /\ PlanIdle
    /\ AgIdle
    /\ StIdle
    /\ TnIdle
    /\ BkIdle
    /\ PfIdle
    /\ FwIdle
    /\ VdIdle
    /\ BrIdle
    /\ SxIdle
    /\ \E n \in 1..MaxFrames :
       \E frames \in [1..n -> EngineFrames] :
          demux = [NoDemux EXCEPT !.frames = frames, !.unread = FrameBytes(frames),
                                  !.pc = "reading"]

DmNext == DemuxData \/ DemuxEnd

SpecDemux == DmInit /\ [][DmNext]_vars

\* C31: however the engine's frames are cut into chunks, execute resolves
\* with the stdout frames' payloads in order as stdout and the stderr frames'
\* payloads as stderr, trimmed.
C31_PayloadsDemultiplexed ==
    demux.pc = "resolved" =>
        /\ demux.result.stdout = Trim(BufferToString(Payloads(demux.frames, 1)))
        /\ demux.result.stderr = Trim(BufferToString(Payloads(demux.frames, 2)))

--------------------------------------------------------------------------
(* Actions of SpecMode *)

\* a deadline is stored in the shared memory
ModeAddDeadline ==
    /\ \E id \in 1..MaxDeadlineIds :
          /\ id \notin dmode.deadlines
          /\ dmode' = [dmode EXCEPT !.deadlines = @ \cup {id}]
    /\ UNCHANGED NotMd

\* CompanionAgent.execute with an activate_deadline_mode task for deadline
\* id: without the deadline the result is a failure and nothing changes
ActivateDeadlineMode ==
    /\ dmode.attempts < MaxActivations
    /\ \E id \in 1..MaxDeadlineIds :
          dmode' = IF id \in dmode.deadlines
                   THEN [ActivateFound(dmode) EXCEPT !.active = TRUE,
                                                     !.attempts = @ + 1]
                   ELSE [dmode EXCEPT !.attempts = @ + 1]
    /\ UNCHANGED NotMd

\* CompanionAgent.deactivateDeadlineMode()
DeactivateDeadlineMode ==
    /\ dmode' = [deactivateDeadlineMode(dmode) EXCEPT !.active = FALSE]
    /\ UNCHANGED NotMd

\* sendMessage building its task
ModeBuildTask ==
    /\ Len(dmode.built) < MaxBuilt
    /\ dmode' = [dmode EXCEPT !.built =
                    Append(@, [priority |-> TaskPriority(dmode),
                               whileActive |-> dmode.active])]
    /\ UNCHANGED NotMd

MdInit ==
    /\ backend = "docker"
    /\ errorListener = FALSE
    /\ RtFresh
    /\ ExIdle
    /\ CtlIdle /\ AsIdle
    /\ RouteIdle
    /\ DlIdle
    /\ PlanIdle
    /\ AgIdle
    /\ StIdle
    /\ TnIdle
    /\ BkIdle
    /\ PfIdle
    /\ FwIdle
    /\ VdIdle
    /\ BrIdle
    /\ SxIdle
    /\ DmIdle
    /\ MdIdle

MdNext ==
    \/ ModeAddDeadline
    \/ ActivateDeadlineMode
    \/ DeactivateDeadlineMode
    \/ ModeBuildTask

SpecMode == MdInit /\ [][MdNext]_vars

C33_TurnRecordedOnce ==
    turn.pc = "done" => conversationHistory = <<"user", "assistant">>

\* the microtasks of the deadline that are done
DoneMicrotasks == {i \in DOMAIN deadline.microtasks : deadline.microtasks[i] = "done"}

\* C34: after any completions through the memory store or the reporting
\* worker, completedMicrotasks is the number of microtasks that are done and
\* progressPercent is that number as a rounded percentage of all of them.
C34_CountersDerived ==
    /\ deadline.completedMicrotasks = Cardinality(DoneMicrotasks)
    /\ deadline.progressPercent =
          IF Len(deadline.microtasks) > 0
          THEN MathRound(100 * Cardinality(DoneMicrotasks), Len(deadline.microtasks))
          ELSE 0

\* C35: for a deadline one week out or more, the microtasks the reporting
\* worker generates come stage by stage, each due in a week from 1 to
\* weeksOut, and along the list the week due never goes up.
C35_DueWeeksInStageOrder ==
    (deadline # NoDeadline /\ weeksOut >= 1) =>
        LET ms == decomposeMicrotasks(weeksOut)
            StageNo(s) == CHOOSE k \in 1..4 : PlanStages(weeksOut)[k].name = s
        IN  \A i, j \in 1..Len(ms) :
                /\ ms[i].dueWeek \in 1..weeksOut
                /\ i < j => StageNo(ms[i].contributesTo) <= StageNo(ms[j].contributesTo)
                /\ i < j => ms[i].dueWeek >= ms[j].dueWeek

\* C36: once an auto-save tick or dispose() has run, the files hold every
\* change made to the contact, deadline and journal databases before it,
\* whether an accessor of the store or a worker made the change.
C36_ChangesReachDisk ==
    (storeStep.op \in {"tick", "dispose"} /\ memoryDb # initializeMemory) =>
        dataDir = saveAll(memoryDb)

--------------------------------------------------------------------------
(* Actions of SpecAssess *)

\* the record_assessment tool: recordAssessment at the time Date.now(),
\* which has moved on since the assessment before
RecordAssessment ==
    /\ Len(assessments) < MaxAssessments
    /\ \E q \in Questionnaires, s \in Scores :
          assessments' = recordAssessment(assessments, asNow, q, s)
    /\ asNow' = asNow + 1
    /\ UNCHANGED NotAs

AsInit ==
    /\ backend = "docker"
    /\ errorListener = FALSE
    /\ RtFresh
    /\ ExIdle
    /\ CtlIdle
    /\ RouteIdle
    /\ DlIdle
    /\ PlanIdle
    /\ AgIdle
    /\ StIdle
    /\ TnIdle
    /\ BkIdle
    /\ PfIdle
    /\ FwIdle
    /\ VdIdle
    /\ BrIdle
    /\ SxIdle
    /\ DmIdle
    /\ MdIdle
    /\ assessments = <<>>
    /\ asNow = 0

AsNext == RecordAssessment

SpecAssess == AsInit /\ [][AsNext]_vars

\* the assessments of the k-th one's questionnaire recorded before it
EarlierOf(k) ==
    {i \in 1..(k - 1) :
        assessments[i].questionnaire = assessments[k].questionnaire}

\* the three of them with the latest dates, or all of them if there are
\* fewer
RecentOf(k) ==
    {i \in EarlierOf(k) :
        Cardinality({j \in EarlierOf(k) :
                        assessments[j].date > assessments[i].date}) < 3}

RECURSIVE ScoreSum(_)
ScoreSum(S) ==
    IF S = {} THEN 0
    ELSE LET i == CHOOSE x \in S : TRUE
         IN  assessments[i].totalScore + ScoreSum(S \ {i})

\* C37: every assessment's trend compares its total score with the average
\* of the 3 most recent earlier assessments of its questionnaire: improving
\* if the score is more than 2 below the average, declining if more than 2
\* above, stable otherwise; with fewer than 2 earlier ones it has no trend.
C37_TrendFromRecentThree ==
    \A k \in DOMAIN assessments :
        LET n == Cardinality(RecentOf(k))
            sum == ScoreSum(RecentOf(k))
            score == assessments[k].totalScore
        IN  IF Cardinality(EarlierOf(k)) < 2
            THEN assessments[k].trend = "undefined"
            ELSE /\ assessments[k].trend = "improving" <=> n * score < sum - 2 * n
                 /\ assessments[k].trend = "declining" <=> n * score > sum + 2 * n
                 /\ assessments[k].trend \in {"improving", "declining", "stable"}

\* a fifth assessment whose trend the oldest of four earlier ones would
\* change, and one at exactly 2 points from the average
C37_Witness ==
    /\ Len(assessments) = 5
    /\ \A i \in 1..5 : assessments[i].questionnaire = "phq9"
    /\ [i \in 1..5 |-> assessments[i].totalScore] = <<6, 0, 0, 0, 3>>
    /\ assessments[5].trend = "declining"

\* assessments of another questionnaire between those of the same one, and
\* a score exactly 2 points above the average
C37_WitnessOther ==
    /\ Len(assessments) = 5
    /\ [i \in 1..5 |-> assessments[i].questionnaire] =
           <<"phq9", "gad7", "gad7", "phq9", "phq9">>
    /\ [i \in 1..5 |-> assessments[i].totalScore] = <<1, 6, 6, 1, 3>>
    /\ assessments[5].trend = "stable"

\* C38: whenever the controller holds no current session, no runtime that a
\* session:start started is still running; a session:start that fails
\* after start() succeeded has stopped the runtime again.
C38_NoRuntimeWithoutSession ==
    currentSession.id = 0 => RunningManagers = {}

\* C39: when a helper that cleanup killed exits while a later session with
\* a helper of its own is running, the step leaves the running session as
\* it was: the running flag stays set, the session's helper is not killed,
\* no pending request is settled and no 'stopped' event is emitted.
C39_StaleExitIsInert ==
    [][\A pid \in DOMAIN helper :
          (/\ backend = "vm"
           /\ running
           /\ bridgeProcess # 0
           /\ bridgeProcess # pid
           /\ helper[pid] = "killed"
           /\ helper'[pid] = "exited") =>
              /\ running'
              /\ bridgeProcess' = bridgeProcess
              /\ helper'[bridgeProcess] = helper[bridgeProcess]
              /\ pendingCommands' = pendingCommands
              /\ ~Emitted("stopped")']_vars

--------------------------------------------------------------------------
(* The task sendMessage builds and the worker's dispatch on it *)

\* the params analyzeIntent returns with an intent tag (the values are not
\* followed)
IntentParams(type) ==
    CASE type = "code" -> [specification |-> "content"]
      [] type = "research" -> [query |-> "content"]
      [] type \in {"email", "deadline", "journal"} -> [content |-> "content"]
      [] type = "questionnaire" -> [questionnaire |-> "match"]
      [] OTHER -> <<>>

\* sendMessage: input: { content, attachments, ...intent.params }
TaskInput(type) ==
    LET params == IntentParams(type)
    IN  [f \in {"content", "attachments"} \cup DOMAIN params |->
            IF f \in DOMAIN params THEN params[f]
            ELSE IF f = "content" THEN "content" ELSE "undefined"]

\* a field of task.input destructured by a handler
Field(input, f) == IF f \in DOMAIN input THEN input[f] ELSE "undefined"

\* ReporterAgent.handleEmail: the switch on action
handleEmail(input) ==
    IF Field(input, "action") \in {"draft", "reply", "summarize"} THEN "none"
    ELSE "Unknown email action"

\* ReporterAgent.handleDeadline: the switch on action
handleDeadline(input) ==
    IF Field(input, "action") \in
           {"create", "update", "complete_microtask", "check", "decompose"}
    THEN "none"
    ELSE "Unknown deadline action"

\* ReporterAgent.generateReport: the switch on type
generateReport(input) ==
    IF Field(input, "type") \in {"daily", "weekly", "deadline"} THEN "none"
    ELSE "Unknown report type"

\* ReporterAgent.execute: the switch on task.type
ReporterDispatch(task) ==
    CASE task.type = "email" -> handleEmail(task.input)
      [] task.type = "deadline" -> handleDeadline(task.input)
      [] task.type \in {"report", "digest"} -> generateReport(task.input)
      [] task.type = "reminder" -> "none"
      [] OTHER -> "Unknown task type"

\* ResearcherAgent.execute: the switch on task.type
ResearcherDispatch(task) ==
    IF task.type \in {"search", "research", "literature_review", "summarize",
                      "fact_check", "extract_data", "create_bibliography"}
    THEN "none"
    ELSE "Unknown task type"

\* CoderAgent.execute: the switch on task.type
CoderDispatch(task) ==
    IF task.type \in {"code", "implement", "debug", "review_code", "run_script",
                      "install_package"}
    THEN "none"
    ELSE "Unknown task type"

\* CompanionAgent.execute: the switch on task.type; what it does not name
\* it handles directly
CompanionDispatch(task) ==
    CASE task.type \in {"code", "debug", "implement", "review_code"} ->
             CoderDispatch(task)
      [] task.type \in {"search", "research", "summarize", "literature_review",
                        "fact_check"} -> ResearcherDispatch(task)
      [] task.type \in {"email", "deadline", "report", "digest"} ->
             ReporterDispatch(task)
      [] OTHER -> "none"

\* sendMessage: the worker's execute on the task; the error of its result
\* if it is one of a failed dispatch
ExecuteTask(agent, task) ==
    CASE agent = "coder" -> CoderDispatch(task)
      [] agent = "researcher" -> ResearcherDispatch(task)
      [] agent = "reporter" -> ReporterDispatch(task)
      [] OTHER -> CompanionDispatch(task)

\* C40: the task sendMessage builds for the intent of a message is one the
\* routed worker carries out: its dispatch does not end in an unknown task
\* type, an unknown action or an unknown report type.
C40_RoutedTaskKnown ==
    targetAgent # "none" =>
        ExecuteTask(targetAgent, [type |-> intent, input |-> TaskInput(intent)])
            = "none"

====
